---- MODULE Spec2Model ----
(***************************************************************************)
(* Property reconciliation layer of REGRID_CRE_MAP: the Regrid normalizer, *)
(* the single/bulk create routes, the refresh route, the duplicate check   *)
(* route and the CSV upload coordinator.                                   *)
(*                                                                         *)
(* Value conventions.  A JavaScript scalar is a TLA+ string token: "NULL"  *)
(* is null, "UNDEF" is undefined / a missing key, "" the empty string,     *)
(* "NaN" not-a-number, digit strings are numbers.  A parcel number (APN)   *)
(* is a sequence of one-character strings so that toLowerCase, replace and *)
(* substring search are computed; the empty sequence stands for both null  *)
(* and '' (the code only ever tests an APN for truthiness).                *)
(***************************************************************************)
EXTENDS Integers, Sequences, FiniteSets, TLC

VARIABLES store, last, csv, bulk, rg, nz, reqs, form

vars == <<store, last, csv, bulk, rg, nz, reqs, form>>

----------------------------------------------------------------------------
(* Bounds *)

MaxCoreRecords == 2    \* records created in the create/refresh specification
MaxMergeRecords == 1   \* records created in the merge specification
MaxSeed == 1           \* records created before a CSV upload starts
MaxRecords == 8        \* persistence refuses to create beyond this many rows
MaxShortRows == 2      \* CSV files with every combination of parcel numbers
MaxFill == 6           \* filler rows of the longest CSV file
MaxApiProps == 2       \* inputs of a direct bulk create request
MaxCreateRecords == 1  \* records created in the create-merge specification
MaxOwnerRecords == 2   \* records created in the two-user specification
MaxBatch == 3          \* inputs of a batch lookup
MaxLimit == 100        \* largest limit a caller asks the address search for
MaxChunk == 3          \* largest tuned chunk size of the CSV coordinator
MaxChunkRows == 3      \* rows of a CSV file uploaded with a tuned chunk size
MaxCalls == 2          \* single-create requests in flight at the same time
MaxRaceRecords == 2    \* records created by requests in flight
MaxInFlight == 2       \* duplicate checks of the parcel-number form in flight

----------------------------------------------------------------------------
(* JavaScript value helpers *)

NULL == "NULL"
UNDEF == "UNDEF"
NoApn == << >>

Falsy(v) == v \in {NULL, UNDEF, "", "0", "NaN"}

\* a || b
Or(a, b) == IF Falsy(a) THEN b ELSE a

\* a || b on parcel numbers
OrApn(a, b) == IF a = NoApn THEN b ELSE a

LowerChar(c) ==
    CASE c = "A" -> "a"
      [] c = "B" -> "b"
      [] c = "E" -> "e"
      [] c = "M" -> "m"
      [] c = "O" -> "o"
      [] c = "P" -> "p"
      [] c = "S" -> "s"
      [] OTHER -> c

\* String.prototype.toLowerCase
toLowerCase(s) == [i \in 1..Len(s) |-> LowerChar(s[i])]

IsDash(c) == c = "-"

NotDash(c) == ~IsDash(c)

\* refresh/route.ts cleanAPN: apn.replace(/-/g, '')
cleanAPN(apn) == IF apn = NoApn THEN NoApn ELSE SelectSeq(apn, NotDash)

\* needle occurs in hay as a contiguous substring
Includes(hay, needle) ==
    \E i \in 0..(Len(hay) - Len(needle)) :
        \A j \in 1..Len(needle) : hay[i + j] = needle[j]

\* the characters of the address and postal code values used by the model
Chars(t) ==
    CASE t = "1 Main St" -> <<"1", " ", "M", "a", "i", "n", " ", "S", "t">>
      [] t = "A1 Elm St" -> <<"A", "1", " ", "E", "l", "m", " ", "S", "t">>
      [] t = "Property A1" -> <<"P", "r", "o", "p", "e", "r", "t", "y", " ", "A", "1">>
      [] t = "Property B2" -> <<"P", "r", "o", "p", "e", "r", "t", "y", " ", "B", "2">>
      [] t = "9 Oak Ave" -> <<"9", " ", "O", "a", "k", " ", "A", "v", "e">>
      [] t = "92" -> <<"9", "2">>
      [] t = "89501" -> <<"8", "9", "5", "0", "1">>
      [] t = "94000" -> <<"9", "4", "0", "0", "0">>
      [] OTHER -> << >>

\* parseInt on the tokens used by the model
parseInt(v) ==
    CASE v \in {"0", "34", "35", "1998", "2005"} -> v
      [] v = "34.5" -> "34"
      [] OTHER -> "NaN"

\* parseFloat on the tokens used by the model
parseFloat(v) ==
    CASE v \in {"0", "34", "35", "34.5", "1998", "2005", "Infinity"} -> v
      [] OTHER -> "NaN"

----------------------------------------------------------------------------
(* Parcel numbers and users *)

A_1 == <<"A", "-", "1">>
A1 == <<"A", "1">>
a_1 == <<"a", "-", "1">>
B2 == <<"B", "2">>
B_2 == <<"B", "-", "2">>

Users == {"u1", "u2"}

EMPTY_POLYGON == "EMPTY_POLYGON"

----------------------------------------------------------------------------
(* Regrid provider: raw feature and normalizer *)

\* the resolved `fields` bag of a raw feature plus its top-level geometry
RawFeature(pn, owner, yb, lat, geom) ==
    [parcelnumb |-> pn, owner |-> owner, yearbuilt |-> yb, lat |-> lat,
     geometry |-> geom, address |-> UNDEF, scity |-> UNDEF, state2 |-> UNDEF,
     szip5 |-> UNDEF]

NoRaw == RawFeature(NoApn, UNDEF, UNDEF, UNDEF, UNDEF)

\* outcome of one provider lookup
ProvError == [kind |-> "error", raw |-> NoRaw]
ProvNone == [kind |-> "none", raw |-> NoRaw]
ProvParcel(raw) == [kind |-> "parcel", raw |-> raw]

\* { canonical: value, ...fields }: a raw key of the same name wins
Spread(canonical, rawValue) == IF rawValue = UNDEF THEN canonical ELSE rawValue

\* RegridService.normalizeProperty
normalizeProperty(raw) ==
    [apn |-> raw.parcelnumb,
     line1 |-> Or(raw.address, ""),
     city |-> Or(raw.scity, ""),
     state |-> Or(raw.state2, ""),
     zip |-> Or(raw.szip5, ""),
     geometry |-> Or(raw.geometry, EMPTY_POLYGON),
     lat |-> Or(parseFloat(raw.lat), "0"),
     owner |-> Spread(Or(raw.owner, ""), raw.owner),
     year_built |-> Or(parseInt(raw.yearbuilt), UNDEF)]

\* regridData === null, read through optional chaining
NullData ==
    [apn |-> NoApn, line1 |-> UNDEF, city |-> UNDEF, state |-> UNDEF, zip |-> UNDEF,
     geometry |-> UNDEF, lat |-> UNDEF, owner |-> UNDEF,
     year_built |-> UNDEF]

\* value of regridData after RegridService.searchByAPN resolved
RegridData(prov) ==
    IF prov.kind = "parcel" THEN normalizeProperty(prov.raw) ELSE NullData

----------------------------------------------------------------------------
(* Persistence collaborator (DatabaseService) *)

UserRecords(u) == SelectSeq(store, LAMBDA r : r.user_id = u)

\* DatabaseService.getProperty(id, userId)
getProperty(id, u) == {r \in {store[i] : i \in 1..Len(store)} : r.id = id /\ r.user_id = u}

\* DatabaseService.getFilteredProperties(userId, {search}): substring search
getFilteredProperties(u, search) ==
    SelectSeq(store, LAMBDA r :
        /\ r.user_id = u
        /\ \/ Includes(toLowerCase(r.apn), toLowerCase(search))
           \/ Includes(toLowerCase(Chars(r.address)), toLowerCase(search))
           \/ Includes(toLowerCase(Chars(r.zip_code)), toLowerCase(search)))

\* DatabaseService.createProperty(propertyData): row owned by the caller
createProperty(u, data) ==
    Append(store, [data EXCEPT !.id = Len(store) + 1, !.user_id = u])

\* DatabaseService.updateProperty(id, userId, partial)
updateProperty(id, u, partial) ==
    [i \in 1..Len(store) |->
        IF store[i].id = id /\ store[i].user_id = u
        THEN [partial EXCEPT !.id = id, !.user_id = u]
        ELSE store[i]]

\* outcomes of a persistence create; nothing is created beyond MaxRecords
PersistOutcomes(max) ==
    IF Len(store) < max THEN {"ok", "null", "throw"} ELSE {"null", "throw"}

----------------------------------------------------------------------------
(* Duplicate resolver *)

\* exactMatch that trusts the fuzzy search: every candidate is a match
exactMatch_FuzzyOnly(existingProperties, apn) == existingProperties

\* existingProperties.find(p => p.apn?.toLowerCase() === apn.toLowerCase())
exactMatch(existingProperties, apn) ==
    SelectSeq(existingProperties, LAMBDA r :
        r.apn # NoApn /\ toLowerCase(r.apn) = toLowerCase(apn))

\* check-apn GET: exists
checkApnExists(u, apn) == exactMatch(getFilteredProperties(u, apn), apn) # << >>

----------------------------------------------------------------------------
(* Create *)

\* createPropertySchema: address is z.string().min(1)
createPropertySchemaOk(inp) == inp.address \notin {UNDEF, ""}

\* propertyData that lets the caller's address fields win over the provider's
propertyData_CallerFirst(inp, rd) ==
    [id |-> 0,
     user_id |-> "",
     apn |-> OrApn(rd.apn, inp.apn),
     address |-> Or(inp.address, rd.line1),
     city |-> Or(Or(inp.city, rd.city), NULL),
     state |-> Or(Or(inp.state, rd.state), NULL),
     zip_code |-> Or(Or(inp.zip_code, rd.zip), NULL),
     geometry |-> Or(rd.geometry, NULL),
     lat |-> Or(rd.lat, NULL),
     year_built |-> Or(rd.year_built, NULL),
     owner |-> Or(rd.owner, NULL),
     user_notes |-> Or(inp.user_notes, NULL),
     tags |-> Or(inp.tags, NULL),
     insurance_provider |-> Or(inp.insurance_provider, NULL),
     maintenance_history |-> Or(inp.maintenance_history, NULL)]

\* propertyData of handleSingleCreate / createSinglePropertyFromInput
propertyData(inp, rd) ==
    [id |-> 0,
     user_id |-> "",
     apn |-> OrApn(rd.apn, inp.apn),
     address |-> Or(rd.line1, inp.address),
     city |-> Or(Or(rd.city, inp.city), NULL),
     state |-> Or(Or(rd.state, inp.state), NULL),
     zip_code |-> Or(Or(rd.zip, inp.zip_code), NULL),
     geometry |-> Or(rd.geometry, NULL),
     lat |-> Or(rd.lat, NULL),
     year_built |-> Or(rd.year_built, NULL),
     owner |-> Or(rd.owner, NULL),
     user_notes |-> Or(inp.user_notes, NULL),
     tags |-> Or(inp.tags, NULL),
     insurance_provider |-> Or(inp.insurance_provider, NULL),
     maintenance_history |-> Or(inp.maintenance_history, NULL)]

NoInput ==
    [regrid_id |-> UNDEF, apn |-> NoApn, address |-> UNDEF, city |-> UNDEF,
     state |-> UNDEF, zip_code |-> UNDEF, user_notes |-> UNDEF, tags |-> UNDEF,
     insurance_provider |-> UNDEF, maintenance_history |-> UNDEF]

Input(apn, address, authored) ==
    [regrid_id |-> UNDEF, apn |-> apn, address |-> address, city |-> UNDEF,
     state |-> UNDEF, zip_code |-> UNDEF,
     user_notes |-> IF authored THEN "note" ELSE UNDEF,
     tags |-> IF authored THEN "tag" ELSE UNDEF,
     insurance_provider |-> IF authored THEN "insurer" ELSE UNDEF,
     maintenance_history |-> IF authored THEN "roof" ELSE UNDEF]

\* record of the last completed step: the request, its outcome, the provider
\* answer it received and whether it invoked a persistence write
Last(op, u, apn, id, status, prov, wrote) ==
    [op |-> op, user |-> u, apn |-> apn, id |-> id, status |-> status,
     prov |-> prov, wrote |-> wrote, inp |-> NoInput, search |-> "unused",
     pers |-> "", calls |-> << >>]

\* a call to RegridService
ProviderCall(fn) == [fn |-> fn, user |-> ""]

\* a call to DatabaseService on behalf of user u
PersistenceCall(fn, u) == [fn |-> fn, user |-> u]

\* answers of RegridService.searchByAddress: raised, [], or a top candidate
SearchOutcomes == {"error", "empty", "found"}

\* regridData of the create paths: searchByAPN when the input has a parcel
\* number, else searchByAddress and, if it found a candidate, getPropertyById
Lookup(inp, search, prov) ==
    IF inp.apn # NoApn THEN prov
    ELSE CASE search = "error" -> ProvError
           [] search = "empty" -> ProvNone
           [] OTHER -> prov

\* LookupCalls of the earlier handleSingleCreate: no provider call when the
\* input carries an external id, a parcel number and an address
LookupCalls_SkipWhenResolved(inp, search) ==
    IF ~Falsy(inp.regrid_id) /\ inp.apn # NoApn /\ ~Falsy(inp.address) THEN << >>
    ELSE IF inp.apn # NoApn THEN <<ProviderCall("searchByAPN")>>
    ELSE IF search = "found"
         THEN <<ProviderCall("searchByAddress"), ProviderCall("getPropertyById")>>
         ELSE <<ProviderCall("searchByAddress")>>

\* the RegridService calls issued for that
LookupCalls(inp, search) ==
    IF inp.apn # NoApn THEN <<ProviderCall("searchByAPN")>>
    ELSE IF search = "found"
         THEN <<ProviderCall("searchByAddress"), ProviderCall("getPropertyById")>>
         ELSE <<ProviderCall("searchByAddress")>>

\* the part of the address search answer a request depends on
SearchUsed(inp, search) == IF inp.apn # NoApn THEN "unused" ELSE search

\* singleCreateDuplicate that searches the records of every user
singleCreateDuplicate_AnyUser(u, data) ==
    /\ data.apn # NoApn
    /\ \E v \in Users : exactMatch(getFilteredProperties(v, data.apn), data.apn) # << >>

\* the server-side duplicate check of handleSingleCreate
singleCreateDuplicate(u, data) ==
    data.apn # NoApn /\ exactMatch(getFilteredProperties(u, data.apn), data.apn) # << >>

\* singleCreateStatus that goes on without provider data when the lookup raised
singleCreateStatus_IgnoresProviderError(u, inp, prov, pers) ==
    IF ~createPropertySchemaOk(inp) THEN "validation_error"
    ELSE IF singleCreateDuplicate(u, propertyData(inp, RegridData(prov))) THEN "duplicate"
    ELSE IF pers = "ok" THEN "created"
    ELSE "db_error"

\* singleCreateStatus that parses the body only after the provider lookup
singleCreateStatus_ValidatesLate(u, inp, prov, pers) ==
    IF prov.kind = "error" THEN "provider_error"
    ELSE IF ~createPropertySchemaOk(inp) THEN "validation_error"
    ELSE IF singleCreateDuplicate(u, propertyData(inp, RegridData(prov))) THEN "duplicate"
    ELSE IF pers = "ok" THEN "created"
    ELSE "db_error"

\* outcome of handleSingleCreate
singleCreateStatus(u, inp, prov, pers) ==
    IF ~createPropertySchemaOk(inp) THEN "validation_error"
    ELSE IF prov.kind = "error" THEN "provider_error"
    ELSE IF singleCreateDuplicate(u, propertyData(inp, RegridData(prov))) THEN "duplicate"
    ELSE IF pers = "ok" THEN "created"
    ELSE "db_error"

\* the calls handleSingleCreate issues, in order, up to its outcome
singleCreateCalls(u, inp, search, answer, status) ==
    IF status = "validation_error" THEN << >>
    ELSE LookupCalls(inp, search)
         \o (IF status = "provider_error" THEN << >>
             ELSE (IF propertyData(inp, RegridData(answer)).apn # NoApn
                   THEN <<PersistenceCall("getFilteredProperties", u)>> ELSE << >>)
                  \o (IF status = "duplicate" THEN << >>
                      ELSE <<PersistenceCall("createProperty", u)>>))

\* POST /api/user-properties with a single property body
handleSingleCreate(u, inp, search, prov, pers) ==
    LET answer == Lookup(inp, search, prov)
        status == singleCreateStatus(u, inp, answer, pers)
    IN
    /\ csv.pc \in {"idle", "done"}
    /\ bulk.pc = "idle"
    /\ store' = IF status = "created"
                THEN createProperty(u, propertyData(inp, RegridData(answer)))
                ELSE store
    /\ last' = [Last("create", u, inp.apn, IF status = "created" THEN Len(store) + 1 ELSE 0,
                     status, IF status = "validation_error" THEN ProvNone ELSE answer,
                     status \in {"created", "db_error"})
                EXCEPT !.inp = inp,
                       !.search = SearchUsed(inp, search),
                       !.pers = IF status \in {"created", "db_error"} THEN pers ELSE "",
                       !.calls = singleCreateCalls(u, inp, search, answer, status)]
    /\ UNCHANGED <<csv, bulk, rg, nz, reqs, form>>

----------------------------------------------------------------------------
(* handleSingleCreate of requests in flight at the same time *)

\* a request: where it is suspended, its user and body, the merged
\* propertyData and its outcome
CallIdle ==
    [pc |-> "idle", user |-> "", inp |-> NoInput, data |-> propertyData(NoInput, NullData),
     status |-> "", id |-> 0]

\* the request arrives: createPropertySchema.parse(body), then the provider
\* lookup is awaited
createArrives(c, u, inp) ==
    /\ reqs[c].pc = "idle"
    /\ reqs' = [reqs EXCEPT ![c] =
           IF createPropertySchemaOk(inp)
           THEN [CallIdle EXCEPT !.pc = "lookup", !.user = u, !.inp = inp]
           ELSE [CallIdle EXCEPT !.pc = "done", !.user = u, !.inp = inp,
                                 !.status = "validation_error"]]
    /\ UNCHANGED <<store, last, csv, bulk, rg, nz, form>>

\* the provider lookup settles: propertyData is built, then the duplicate
\* check is awaited if propertyData.apn is set, else the create
createLookedUp(c, search, prov) ==
    LET answer == Lookup(reqs[c].inp, search, prov)
        data == propertyData(reqs[c].inp, RegridData(answer))
    IN
    /\ reqs[c].pc = "lookup"
    /\ reqs' = [reqs EXCEPT ![c] =
           IF answer.kind = "error"
           THEN [@ EXCEPT !.pc = "done", !.status = "provider_error"]
           ELSE [@ EXCEPT !.pc = IF data.apn # NoApn THEN "check" ELSE "create",
                          !.data = data]]
    /\ UNCHANGED <<store, last, csv, bulk, rg, nz, form>>

\* DatabaseService.getFilteredProperties settles: duplicate error, or the
\* create is awaited
createChecked(c) ==
    /\ reqs[c].pc = "check"
    /\ reqs' = [reqs EXCEPT ![c] =
           IF singleCreateDuplicate(reqs[c].user, reqs[c].data)
           THEN [@ EXCEPT !.pc = "done", !.status = "duplicate"]
           ELSE [@ EXCEPT !.pc = "create"]]
    /\ UNCHANGED <<store, last, csv, bulk, rg, nz, form>>

\* DatabaseService.createProperty settles
createPersisted(c, pers) ==
    /\ reqs[c].pc = "create"
    /\ store' = IF pers = "ok" THEN createProperty(reqs[c].user, reqs[c].data) ELSE store
    /\ reqs' = [reqs EXCEPT ![c] =
           [@ EXCEPT !.pc = "done",
                     !.status = IF pers = "ok" THEN "created" ELSE "db_error",
                     !.id = IF pers = "ok" THEN Len(store) + 1 ELSE 0]]
    /\ UNCHANGED <<last, csv, bulk, rg, nz, form>>

\* the response was sent; the slot takes the next request
createResponded(c) ==
    /\ reqs[c].pc = "done"
    /\ reqs' = [reqs EXCEPT ![c] = CallIdle]
    /\ UNCHANGED <<store, last, csv, bulk, rg, nz, form>>

----------------------------------------------------------------------------
(* Parcel-number form: debounced duplicate check (APNForm) *)

\* the form after it was mounted: the effect has run once for the empty
\* field and its timeout is pending. timer and lastChecked hold at most one
\* parcel number, inFlight the parcel numbers of the check-apn requests sent
FormMounted ==
    [apn |-> NoApn, timer |-> <<NoApn>>, inFlight |-> << >>,
     isRecentlyChanged |-> TRUE, isDuplicateChecking |-> FALSE,
     duplicateProperty |-> 0, lastChecked |-> << >>,
     isSearching |-> FALSE, searched |-> << >>, propertyPreview |-> FALSE]

\* the user changes the field: onChange clears the preview, the effect sets
\* isRecentlyChanged, clears duplicateProperty, and its cleanup replaces the
\* pending timeout by one for the new value
formChange(v) ==
    /\ v # form.apn
    /\ form' = [form EXCEPT !.apn = v, !.propertyPreview = FALSE,
                            !.isRecentlyChanged = TRUE, !.duplicateProperty = 0,
                            !.timer = <<v>>]
    /\ UNCHANGED <<store, last, csv, bulk, rg, nz, reqs>>

\* the 500 ms timeout fires: checkForDuplicate(apn) up to its fetch
formTimeout ==
    LET apn == form.timer[1] IN
    /\ form.timer # << >>
    /\ Len(form.inFlight) < MaxInFlight
    /\ form' = IF apn = NoApn \/ Len(apn) < 3
               THEN [form EXCEPT !.timer = << >>, !.duplicateProperty = 0,
                                 !.isDuplicateChecking = FALSE,
                                 !.isRecentlyChanged = FALSE,
                                 !.lastChecked = <<apn>>]
               ELSE [form EXCEPT !.timer = << >>, !.isDuplicateChecking = TRUE,
                                 !.inFlight = Append(@, apn)]
    /\ UNCHANGED <<store, last, csv, bulk, rg, nz, reqs>>

\* the parcel numbers in flight without the k-th
RemoveAt(q, k) == SubSeq(q, 1, k - 1) \o SubSeq(q, k + 1, Len(q))

\* the check-apn request k settles: the rest of checkForDuplicate
formCheckSettles(k, fetchFails) ==
    LET apn == form.inFlight[k]
        exists == ~fetchFails /\ checkApnExists("u1", apn)
    IN
    /\ k \in 1..Len(form.inFlight)
    /\ form' = [form EXCEPT
           !.inFlight = RemoveAt(@, k),
           !.duplicateProperty =
               IF exists THEN exactMatch(getFilteredProperties("u1", apn), apn)[1].id
               ELSE 0,
           !.isDuplicateChecking = FALSE,
           !.isRecentlyChanged = FALSE,
           !.lastChecked = <<apn>>]
    /\ UNCHANGED <<store, last, csv, bulk, rg, nz, reqs>>

\* disabled={isSearching || !apnValue || !!duplicateProperty ||
\*           isDuplicateChecking || isRecentlyChanged}
searchDisabled ==
    \/ form.isSearching
    \/ form.apn = NoApn
    \/ form.duplicateProperty # 0
    \/ form.isDuplicateChecking
    \/ form.isRecentlyChanged

\* handleSearch by a click on the enabled button, up to its fetch
handleSearch ==
    /\ ~searchDisabled
    /\ form' = [form EXCEPT !.isSearching = TRUE, !.propertyPreview = FALSE,
                            !.searched = <<form.apn>>]
    /\ UNCHANGED <<store, last, csv, bulk, rg, nz, reqs>>

\* the search request settles: preview or error, then setIsSearching(false)
searchSettles(found) ==
    /\ form.isSearching
    /\ form' = [form EXCEPT !.isSearching = FALSE, !.propertyPreview = found]
    /\ UNCHANGED <<store, last, csv, bulk, rg, nz, reqs>>

----------------------------------------------------------------------------
(* Refresh *)

\* updatedPropertyData with `owner: regridData.properties?.owner` (no fallback)
updatedPropertyData_OwnerNoFallback(existing, rd) ==
    [id |-> existing.id,
     user_id |-> existing.user_id,
     apn |-> cleanAPN(OrApn(rd.apn, existing.apn)),
     address |-> Or(rd.line1, existing.address),
     city |-> Or(rd.city, existing.city),
     state |-> Or(rd.state, existing.state),
     zip_code |-> Or(rd.zip, existing.zip_code),
     geometry |-> Or(rd.geometry, existing.geometry),
     lat |-> Or(rd.lat, existing.lat),
     year_built |-> Or(rd.year_built, existing.year_built),
     owner |-> rd.owner,
     user_notes |-> existing.user_notes,
     tags |-> existing.tags,
     insurance_provider |-> existing.insurance_provider,
     maintenance_history |-> existing.maintenance_history]

\* updatedPropertyData that forgets to carry tags and maintenance_history over
updatedPropertyData_DropsUserData(existing, rd) ==
    [id |-> existing.id,
     user_id |-> existing.user_id,
     apn |-> cleanAPN(OrApn(rd.apn, existing.apn)),
     address |-> Or(rd.line1, existing.address),
     city |-> Or(rd.city, existing.city),
     state |-> Or(rd.state, existing.state),
     zip_code |-> Or(rd.zip, existing.zip_code),
     geometry |-> Or(rd.geometry, existing.geometry),
     lat |-> Or(rd.lat, existing.lat),
     year_built |-> Or(rd.year_built, existing.year_built),
     owner |-> Or(rd.owner, existing.owner),
     user_notes |-> existing.user_notes,
     tags |-> NULL,
     insurance_provider |-> existing.insurance_provider,
     maintenance_history |-> NULL]

\* updatedPropertyData of the refresh route
updatedPropertyData(existing, rd) ==
    [id |-> existing.id,
     user_id |-> existing.user_id,
     apn |-> cleanAPN(OrApn(rd.apn, existing.apn)),
     address |-> Or(rd.line1, existing.address),
     city |-> Or(rd.city, existing.city),
     state |-> Or(rd.state, existing.state),
     zip_code |-> Or(rd.zip, existing.zip_code),
     geometry |-> Or(rd.geometry, existing.geometry),
     lat |-> Or(rd.lat, existing.lat),
     year_built |-> Or(rd.year_built, existing.year_built),
     owner |-> Or(rd.owner, existing.owner),
     user_notes |-> existing.user_notes,
     tags |-> existing.tags,
     insurance_provider |-> existing.insurance_provider,
     maintenance_history |-> existing.maintenance_history]

\* refreshStatus without the `!existingProperty.apn` early return
refreshStatus_NoApnCheck(id, u, prov) ==
    IF getProperty(id, u) = {} THEN "not_found"
    ELSE IF prov.kind = "error" THEN "provider_error"
    ELSE IF prov.kind = "none" THEN "no_data"
    ELSE "refreshed"

\* outcome of the refresh route
refreshStatus(id, u, prov) ==
    IF getProperty(id, u) = {} THEN "not_found"
    ELSE IF (CHOOSE r \in getProperty(id, u) : TRUE).apn = NoApn THEN "no_apn"
    ELSE IF prov.kind = "error" THEN "provider_error"
    ELSE IF prov.kind = "none" THEN "no_data"
    ELSE "refreshed"

\* the calls the refresh route issues, in order, up to its outcome
refreshCalls(u, status) ==
    <<PersistenceCall("getProperty", u)>>
    \o (IF status \in {"not_found", "no_apn"} THEN << >>
        ELSE <<ProviderCall("searchByAPN")>>)
    \o (IF status = "refreshed" THEN <<PersistenceCall("updateProperty", u)>> ELSE << >>)

\* POST /api/user-properties/[id]/refresh
refresh(id, u, prov) ==
    LET status == refreshStatus(id, u, prov) IN
    /\ csv.pc \in {"idle", "done"}
    /\ bulk.pc = "idle"
    /\ store' = IF status = "refreshed"
                THEN updateProperty(id, u,
                        updatedPropertyData(CHOOSE r \in getProperty(id, u) : TRUE,
                                            RegridData(prov)))
                ELSE store
    /\ last' = [Last("refresh", u, NoApn, id, status, prov, status = "refreshed")
                EXCEPT !.calls = refreshCalls(u, status)]
    /\ UNCHANGED <<csv, bulk, rg, nz, reqs, form>>

----------------------------------------------------------------------------
(* Duplicate check route *)

\* GET /api/user-properties/check-apn
checkApn(u, apn) ==
    /\ csv.pc \in {"idle", "done"}
    /\ bulk.pc = "idle"
    /\ last' = [Last("check", u, apn,
                     IF apn # NoApn /\ checkApnExists(u, apn)
                     THEN exactMatch(getFilteredProperties(u, apn), apn)[1].id ELSE 0,
                     IF apn = NoApn THEN "bad_request"
                     ELSE IF checkApnExists(u, apn) THEN "exists" ELSE "absent",
                     ProvNone, FALSE)
                EXCEPT !.calls = IF apn = NoApn THEN << >>
                                 ELSE <<PersistenceCall("getFilteredProperties", u)>>]
    /\ UNCHANGED <<store, csv, bulk, rg, nz, reqs, form>>

----------------------------------------------------------------------------
(* Bulk create (server side of POST /api/user-properties with properties[]) *)

batchSize == 5

CsvIdle ==
    [pc |-> "idle", user |-> "", properties |-> << >>, pending |-> {},
     isDuplicate |-> {}, preexisting |-> {}, uniqueProperties |-> << >>, i |-> 0,
     results |-> << >>, errors |-> << >>, F |-> 0, T |-> 0,
     uploadResults |-> [total |-> 0, successful |-> 0, failed |-> 0],
     batchSize |-> batchSize, plan |-> << >>, isUploading |-> FALSE]

BulkIdle ==
    [pc |-> "idle", caller |-> "", user |-> "", properties |-> << >>, rows |-> << >>,
     results |-> << >>, errors |-> << >>, F |-> 0, T |-> 0]

\* bulkCreateSchema.parse: every element must satisfy createPropertySchema
bulkCreateSchemaOk(props) == \A k \in 1..Len(props) : createPropertySchemaOk(props[k])

\* a request that reached handleBulkCreate and passed bulkCreateSchema.parse
BulkRunning(caller, u, props, rows) ==
    [pc |-> "running", caller |-> caller, user |-> u, properties |-> props,
     rows |-> rows, results |-> << >>, errors |-> << >>, F |-> 0, T |-> 0]

\* index of the input the loop of handleBulkCreate is at
bulkIndex == Len(bulk.results) + Len(bulk.errors) + 1

\* createSinglePropertyFromInput: a provider failure is caught and ignored
createSinglePropertyFromInput(inp, prov) ==
    propertyData(inp, IF prov.kind = "error" THEN NullData ELSE RegridData(prov))

\* the calls createSinglePropertyFromInput issues
bulkItemCalls(u, inp, search) ==
    LookupCalls(inp, search) \o <<PersistenceCall("createProperty", u)>>

\* one iteration of the loop of handleBulkCreate
bulkItem(search, prov, pers) ==
    LET j == bulkIndex
        inp == bulk.properties[j]
        answer == Lookup(inp, search, prov)
        data == createSinglePropertyFromInput(inp, answer)
        \* bookkeeping: the input was not in the portfolio when the run began
        \* and its provider lookup or its creation failed
        failed == /\ answer.kind = "error" \/ pers # "ok"
                  /\ bulk.caller = "csv" => bulk.rows[j] \notin csv.preexisting
    IN
    /\ bulk.pc = "running"
    /\ j <= Len(bulk.properties)
    /\ store' = IF pers = "ok" THEN createProperty(bulk.user, data) ELSE store
    /\ bulk' = [bulk EXCEPT
           !.results = IF pers = "throw" THEN @
                       ELSE Append(@, [row |-> bulk.rows[j],
                                       property |-> IF pers = "ok" THEN Len(store) + 1 ELSE 0]),
           !.errors = IF pers = "throw"
                      THEN Append(@, [row |-> bulk.rows[j], type |-> UNDEF])
                      ELSE @,
           !.F = IF failed THEN @ + 1 ELSE @,
           !.T = IF pers = "throw" THEN @ + 1 ELSE @]
    /\ last' = [Last("bulk_item", bulk.user, inp.apn,
                     IF pers = "ok" THEN Len(store) + 1 ELSE 0,
                     CASE pers = "ok" -> "created"
                       [] pers = "null" -> "null_result"
                       [] OTHER -> "db_error",
                     answer, TRUE)
                EXCEPT !.inp = inp,
                       !.search = SearchUsed(inp, search),
                       !.pers = pers,
                       !.calls = bulkItemCalls(bulk.user, inp, search)]
    /\ UNCHANGED <<csv, rg, nz, reqs, form>>

\* direct bulk create request of an API caller
apiBulkCreate(u, props) ==
    /\ csv.pc \in {"idle", "done"}
    /\ bulk.pc \in {"idle", "responded"}
    /\ IF bulkCreateSchemaOk(props)
       THEN /\ bulk' = BulkRunning("api", u, props, [k \in 1..Len(props) |-> k])
            /\ last' = Last("bulk_start", u, NoApn, 0, "accepted", ProvNone, FALSE)
       ELSE /\ bulk' = [BulkIdle EXCEPT !.pc = "responded", !.caller = "api", !.user = u,
                            !.properties = props,
                            !.rows = [k \in 1..Len(props) |-> k]]
            /\ last' = Last("bulk_start", u, NoApn, 0, "validation_error", ProvNone, FALSE)
    /\ UNCHANGED <<store, csv, rg, nz, reqs, form>>

\* NextResponse.json({created, errors, summary}) to an API caller
apiBulkRespond ==
    /\ bulk.pc = "running"
    /\ bulk.caller = "api"
    /\ bulkIndex > Len(bulk.properties)
    /\ bulk' = [bulk EXCEPT !.pc = "responded"]
    /\ last' = Last("bulk", bulk.user, NoApn, 0, "ok", ProvNone, FALSE)
    /\ UNCHANGED <<store, csv, rg, nz, reqs, form>>

\* summary of the response of handleBulkCreate
bulkSummary ==
    [total |-> Len(bulk.properties), successful |-> Len(bulk.results),
     failed |-> Len(bulk.errors)]

----------------------------------------------------------------------------
(* CSV upload coordinator (CSVUpload.handleUpload) *)

Min(a, b) == IF a < b THEN a ELSE b

\* rows of the parsed file mapped to { apn, address: `Property ${apn}` }
CsvAddress(apn) ==
    CASE apn = A1 -> "Property A1"
      [] apn = B2 -> "Property B2"
      [] OTHER -> "Property"

CsvProperty(apn) == Input(apn, CsvAddress(apn), FALSE)

\* isUploading once Papa.parse has returned: handleUpload has no await, so
\* setIsUploading(true), the call of Papa.parse and the finally block with
\* setIsUploading(false) run in one go; the complete callback, which issues
\* the duplicate checks and the chunk requests, is not awaited
isUploadingAfterParse == FALSE

\* disabled={!validation?.isValid || isUploading} for a valid file
uploadDisabled == csv.isUploading

\* handleUpload with its chunk size set to b; plan fixes, row by row, how
\* the duplicate check, the provider and the persistence answer in this run
csvStartTuned(u, apns, b, plan) ==
    /\ csv.pc = "idle"
    /\ bulk.pc # "running"
    /\ csv' = [CsvIdle EXCEPT
           !.pc = "checking",
           !.user = u,
           !.isUploading = isUploadingAfterParse,
           !.batchSize = b,
           !.plan = plan,
           !.properties = [k \in 1..Len(apns) |-> CsvProperty(apns[k])],
           !.pending = 1..Len(apns),
           !.preexisting = {k \in 1..Len(apns) : checkApnExists(u, apns[k])}]
    /\ last' = Last("csv_start", u, NoApn, 0, "", ProvNone, FALSE)
    /\ UNCHANGED <<store, bulk, rg, nz, reqs, form>>

\* handleUpload: parse the file and issue every duplicate check at once
csvStart(u, apns) ==
    /\ csv.pc = "idle"
    /\ bulk.pc # "running"
    /\ csv' = [CsvIdle EXCEPT
           !.pc = "checking",
           !.user = u,
           !.isUploading = isUploadingAfterParse,
           !.properties = [k \in 1..Len(apns) |-> CsvProperty(apns[k])],
           !.pending = 1..Len(apns),
           !.preexisting = {k \in 1..Len(apns) : checkApnExists(u, apns[k])}]
    /\ last' = Last("csv_start", u, NoApn, 0, "", ProvNone, FALSE)
    /\ UNCHANGED <<store, bulk, rg, nz, reqs, form>>

\* one check-apn fetch settles; a failed fetch counts as "not a duplicate"
csvCheck(k, fetchFails) ==
    /\ csv.pc = "checking"
    /\ k \in csv.pending
    /\ csv' = [csv EXCEPT
           !.pending = @ \ {k},
           !.isDuplicate =
               IF ~fetchFails /\ csv.properties[k].apn # NoApn
                  /\ checkApnExists(csv.user, csv.properties[k].apn)
               THEN @ \cup {k} ELSE @]
    /\ last' = Last("csv_check", csv.user, csv.properties[k].apn, k,
                    IF fetchFails THEN "failed" ELSE "checked", ProvNone, FALSE)
    /\ UNCHANGED <<store, bulk, rg, nz, reqs, form>>

\* indices 1..n that are not in S, in increasing order
RECURSIVE Remaining(_, _)
Remaining(n, S) ==
    IF n = 0 THEN << >>
    ELSE IF n \in S THEN Remaining(n - 1, S)
    ELSE Append(Remaining(n - 1, S), n)

\* rows in S in increasing order as error entries of type 'duplicate'
RECURSIVE DuplicateErrors(_, _)
DuplicateErrors(n, S) ==
    IF n = 0 THEN << >>
    ELSE IF n \in S THEN Append(DuplicateErrors(n - 1, S), [row |-> n, type |-> "duplicate"])
    ELSE DuplicateErrors(n - 1, S)

\* csvPartition that does not wait for the duplicate checks to settle
csvPartition_NoWait ==
    /\ csv.pc = "checking"
    /\ csv' = [csv EXCEPT
           !.pc = "chunks",
           !.uniqueProperties = Remaining(Len(csv.properties), csv.isDuplicate),
           !.errors = DuplicateErrors(Len(csv.properties), csv.isDuplicate),
           !.i = 0]
    /\ last' = Last("csv_partition", csv.user, NoApn, 0, "", ProvNone, FALSE)
    /\ UNCHANGED <<store, bulk, rg, nz, reqs, form>>

\* Promise.all resolved: split into duplicates and uniqueProperties
csvPartition ==
    /\ csv.pc = "checking"
    /\ csv.pending = {}
    /\ csv' = [csv EXCEPT
           !.pc = "chunks",
           !.uniqueProperties = Remaining(Len(csv.properties), csv.isDuplicate),
           !.errors = DuplicateErrors(Len(csv.properties), csv.isDuplicate),
           !.i = 0]
    /\ last' = Last("csv_partition", csv.user, NoApn, 0, "", ProvNone, FALSE)
    /\ UNCHANGED <<store, bulk, rg, nz, reqs, form>>

\* csvBatch with an off-by-one end: slice(i, i + batchSize + 1)
csvBatch_OffByOne ==
    SubSeq(csv.uniqueProperties, csv.i + 1,
           Min(csv.i + csv.batchSize + 1, Len(csv.uniqueProperties)))

\* uniqueProperties.slice(i, i + batchSize)
csvBatch ==
    SubSeq(csv.uniqueProperties, csv.i + 1,
           Min(csv.i + csv.batchSize, Len(csv.uniqueProperties)))

\* a loop whose step stays at the default while the slice uses the chunk size
csvAdvance_FixedStep == csv.i + batchSize

\* i += batchSize
csvAdvance == csv.i + csv.batchSize

\* UploadErrors that reports a failed chunk as one error for the whole batch
UploadErrors_OnePerBatch(batch) == <<[row |-> 0, type |-> "upload_error"]>>

\* batch.forEach(prop => errors.push({ apn, error, type: 'upload_error' }))
UploadErrors(batch) == [k \in 1..Len(batch) |-> [row |-> batch[k], type |-> "upload_error"]]

\* fetch('/api/user-properties', POST {properties: batch}) of one chunk
csvChunkRequest(requestFails) ==
    LET batch == csvBatch
        props == [k \in 1..Len(batch) |-> csv.properties[batch[k]]]
    IN
    /\ csv.pc = "chunks"
    /\ csv.i < Len(csv.uniqueProperties)
    /\ IF requestFails \/ ~bulkCreateSchemaOk(props)
       THEN /\ csv' = [csv EXCEPT !.errors = @ \o UploadErrors(batch),
                                  !.i = csvAdvance,
                                  !.F = @ + Len(SelectSeq(batch, LAMBDA r : r \notin csv.preexisting)),
                                  !.T = @ + Len(batch)]
            /\ bulk' = bulk
            /\ last' = Last("csv_chunk", csv.user, NoApn, 0, "failed", ProvNone, FALSE)
       ELSE /\ csv' = [csv EXCEPT !.pc = "waiting"]
            /\ bulk' = BulkRunning("csv", csv.user, props, batch)
            /\ last' = Last("csv_chunk", csv.user, NoApn, 0, "sent", ProvNone, FALSE)
    /\ UNCHANGED <<store, rg, nz, reqs, form>>

\* response of a chunk: results.push(...created); errors.push(...errors)
csvChunkResponse ==
    /\ csv.pc = "waiting"
    /\ bulk.pc = "running"
    /\ bulk.caller = "csv"
    /\ bulkIndex > Len(bulk.properties)
    /\ csv' = [csv EXCEPT !.pc = "chunks",
                          !.results = @ \o bulk.results,
                          !.errors = @ \o bulk.errors,
                          !.i = csvAdvance,
                          !.F = @ + bulk.F,
                          !.T = @ + bulk.T]
    /\ bulk' = BulkIdle
    /\ last' = Last("csv_chunk", csv.user, NoApn, 0, "ok", ProvNone, FALSE)
    /\ UNCHANGED <<store, rg, nz, reqs, form>>

\* setUploadResults({ total, successful, failed, results, errors })
csvFinish ==
    /\ csv.pc = "chunks"
    /\ csv.i >= Len(csv.uniqueProperties)
    /\ csv' = [csv EXCEPT !.pc = "done",
                          !.uploadResults =
                              [total |-> Len(csv.properties),
                               successful |-> Len(csv.results),
                               failed |-> Len(csv.errors)]]
    /\ last' = Last("csv_done", csv.user, NoApn, 0, "", ProvNone, FALSE)
    /\ UNCHANGED <<store, bulk, rg, nz, reqs, form>>

----------------------------------------------------------------------------
(* RegridService batch lookups *)

\* an HTTP answer of the provider: response.ok, response.status, the body
\* text, whether the parsed body has parcels.features, and that list
Response(ok, status, body, hasFeatures, features) ==
    [ok |-> ok, status |-> status, body |-> body, hasFeatures |-> hasFeatures,
     features |-> features]

NoResponse == Response(TRUE, "", "", FALSE, << >>)

NoError == [message |-> "", status |-> UNDEF, body |-> UNDEF]

\* `Regrid API Error (${response.status}): ${error}`
ApiError(status, body) == [message |-> "Regrid API Error", status |-> status, body |-> body]

ConfigError == [message |-> "Regrid API key is not configured", status |-> UNDEF, body |-> UNDEF]

\* a settled promise: fulfilled with a parcel or with null, or rejected
Fulfilled(value) == [kind |-> "parcel", value |-> value, error |-> NoError]
FulfilledNull == [kind |-> "none", value |-> NullData, error |-> NoError]
Rejected(error) == [kind |-> "error", value |-> NullData, error |-> error]

\* RegridService.makeRequest: the rejection it raises, NoError if it returns
makeRequest(configured, resp) ==
    IF ~configured THEN ConfigError
    ELSE IF ~resp.ok THEN ApiError(resp.status, resp.body)
    ELSE NoError

\* number of fetch calls one makeRequest issues: none when the key is missing
makeRequestFetches(configured) == IF configured THEN 1 ELSE 0

\* TEST_APNS.includes(apn) && NODE_ENV === 'development', and the cached file
\* was read and holds at least one feature (a file that cannot be read or
\* holds no feature falls through to the request)
cacheHit(useCache, cached) == useCache /\ Len(cached) > 0

\* data?.parcels?.features || []
Features(resp) == IF resp.hasFeatures THEN resp.features ELSE << >>

\* searchByAPN that swallows a provider error and answers null
searchByAPN_NullOnError(useCache, cached, configured, resp) ==
    IF cacheHit(useCache, cached) THEN Fulfilled(normalizeProperty(cached[1]))
    ELSE IF makeRequest(configured, resp) # NoError THEN FulfilledNull
    ELSE IF Len(Features(resp)) > 0 THEN Fulfilled(normalizeProperty(Features(resp)[1]))
    ELSE FulfilledNull

\* RegridService.searchByAPN
searchByAPN(useCache, cached, configured, resp) ==
    IF cacheHit(useCache, cached) THEN Fulfilled(normalizeProperty(cached[1]))
    ELSE IF makeRequest(configured, resp) # NoError THEN Rejected(makeRequest(configured, resp))
    ELSE IF Len(Features(resp)) > 0 THEN Fulfilled(normalizeProperty(Features(resp)[1]))
    ELSE FulfilledNull

\* RegridService.getPropertyById
getPropertyById(configured, resp) ==
    IF makeRequest(configured, resp) # NoError THEN Rejected(makeRequest(configured, resp))
    ELSE IF Len(Features(resp)) > 0 THEN Fulfilled(normalizeProperty(Features(resp)[1]))
    ELSE FulfilledNull

\* fetch calls issued by one searchByAPN
searchByAPNFetches(useCache, cached, configured) ==
    IF cacheHit(useCache, cached) THEN 0 ELSE makeRequestFetches(configured)

\* a JavaScript number: NaN or an integer
Num(n) == [nan |-> FALSE, n |-> n]
NaN == [nan |-> TRUE, n |-> 0]

\* Math.min(a, b)
MathMin(a, b) ==
    IF a.nan \/ b.nan THEN NaN ELSE Num(IF a.n <= b.n THEN a.n ELSE b.n)

REGRID_MAX_LIMIT == 25
DEFAULT_LIMIT == 10

\* no limit parameter was sent
NoLimit == [nan |-> FALSE, n |-> -1000]

\* limit: number = 10
limitArg(limit) == IF limit = NoLimit THEN Num(DEFAULT_LIMIT) ELSE limit

\* params.limit of searchByAddress: Math.min(limit, 25)
searchByAddressLimit(limit) == MathMin(limitArg(limit), Num(REGRID_MAX_LIMIT))

\* a hit of the provider's search: result.id, whether result.fields exists,
\* result.fields.apn
SearchHit(id, hasFields, apn) == [id |-> id, hasFields |-> hasFields, apn |-> apn]

\* (data.results || []).map(...): apn: result.fields?.apn || ''
RegridSearchResult(hit) ==
    [id |-> hit.id, apn |-> IF hit.hasFields THEN Or(hit.apn, "") ELSE ""]

\* searchByAddress resolved with a list of hits
FulfilledList == [kind |-> "results", value |-> NullData, error |-> NoError]

\* RegridService.searchByAddress: rejection, or the mapped hits
searchByAddress(configured, resp) ==
    IF makeRequest(configured, resp) # NoError THEN Rejected(makeRequest(configured, resp))
    ELSE FulfilledList

searchByAddressResults(configured, resp) ==
    IF makeRequest(configured, resp) # NoError THEN << >>
    ELSE [k \in 1..Len(Features(resp)) |-> RegridSearchResult(Features(resp)[k])]

Pending == [kind |-> "pending", value |-> NullData, error |-> NoError]

RgIdle ==
    [pc |-> "idle", op |-> "none", configured |-> TRUE, resp |-> NoResponse,
     result |-> FulfilledNull, n |-> 0, outcomes |-> << >>, i |-> 0, phase |-> "",
     results |-> << >>, raised |-> FALSE, log |-> << >>,
     useCache |-> FALSE, cached |-> << >>, fetches |-> 0, limit |-> NoLimit,
     hits |-> << >>]

\* one call of searchByAPN answered by the provider with resp
lookupByAPN(useCache, cached, configured, resp) ==
    /\ rg.pc \in {"idle", "returned"}
    /\ rg' = [RgIdle EXCEPT !.op = "searchByAPN", !.configured = configured,
                            !.resp = resp, !.useCache = useCache, !.cached = cached,
                            !.fetches = searchByAPNFetches(useCache, cached, configured),
                            !.result = searchByAPN(useCache, cached, configured, resp)]
    /\ UNCHANGED <<store, last, csv, bulk, nz, reqs, form>>

\* one call of searchByAddress with a caller-requested limit
lookupByAddress(limit, configured, resp) ==
    /\ rg.pc \in {"idle", "returned"}
    /\ rg' = [RgIdle EXCEPT !.op = "searchByAddress", !.configured = configured,
                            !.resp = resp,
                            !.fetches = makeRequestFetches(configured),
                            !.limit = searchByAddressLimit(limit),
                            !.result = searchByAddress(configured, resp),
                            !.hits = searchByAddressResults(configured, resp)]
    /\ UNCHANGED <<store, last, csv, bulk, nz, reqs, form>>

\* parseInt on the limit query parameters used by the model
parseIntLimit(v) ==
    CASE v = "5" -> Num(5)
      [] v = "10" -> Num(10)
      [] v = "30" -> Num(30)
      [] v = "30.9" -> Num(30)
      [] OTHER -> NaN

\* GET of the property search route by a signed-in user: apn and address are
\* whether the query has them, limitParam is the limit query parameter
searchRoute(apn, address, limitParam, useCache, cached, configured, resp) ==
    LET limit == parseIntLimit(Or(limitParam, "10"))
        result == IF apn THEN searchByAPN(useCache, cached, configured, resp)
                  ELSE searchByAddress(configured, resp) IN
    /\ rg.pc \in {"idle", "returned"}
    /\ rg' = IF ~apn /\ ~address
             THEN [RgIdle EXCEPT !.op = "GET search", !.phase = "400",
                                 !.configured = configured]
             ELSE [RgIdle EXCEPT
                      !.op = "GET search", !.configured = configured, !.resp = resp,
                      !.useCache = apn /\ useCache,
                      !.cached = IF apn THEN cached ELSE << >>,
                      !.fetches = IF apn
                                  THEN searchByAPNFetches(useCache, cached, configured)
                                  ELSE makeRequestFetches(configured),
                      !.limit = IF apn THEN NoLimit ELSE searchByAddressLimit(limit),
                      !.result = result,
                      !.hits = IF apn THEN << >>
                               ELSE searchByAddressResults(configured, resp),
                      !.phase = IF result.kind = "error" THEN "500" ELSE "200"]
    /\ UNCHANGED <<store, last, csv, bulk, nz, reqs, form>>

\* one call of getPropertyById
lookupById(configured, resp) ==
    /\ rg.pc \in {"idle", "returned"}
    /\ rg' = [RgIdle EXCEPT !.op = "getPropertyById", !.configured = configured,
                            !.resp = resp,
                            !.fetches = makeRequestFetches(configured),
                            !.result = getPropertyById(configured, resp)]
    /\ UNCHANGED <<store, last, csv, bulk, nz, reqs, form>>

\* batchSearchByAPNs: apns.map(apn => this.searchByAPN(apn, state)) starts a
\* lookup for every input
batchSearchByAPNs(n) ==
    /\ rg.pc \in {"idle", "returned"}
    /\ rg' = [RgIdle EXCEPT !.pc = "settling", !.op = "batchSearchByAPNs", !.n = n,
                            !.outcomes = [k \in 1..n |-> Pending]]
    /\ UNCHANGED <<store, last, csv, bulk, nz, reqs, form>>

\* the lookup of input k settles
batchSettle(k, resp) ==
    /\ rg.pc = "settling"
    /\ k \in 1..rg.n
    /\ rg.outcomes[k] = Pending
    /\ rg' = [rg EXCEPT !.outcomes[k] = searchByAPN(FALSE, << >>, TRUE, resp)]
    /\ UNCHANGED <<store, last, csv, bulk, nz, reqs, form>>

\* values of the fulfilled, non-null outcomes among the first n, in input order
RECURSIVE FulfilledValues(_, _)
FulfilledValues(outcomes, n) ==
    IF n = 0 THEN << >>
    ELSE IF outcomes[n].kind = "parcel"
         THEN Append(FulfilledValues(outcomes, n - 1), outcomes[n].value)
         ELSE FulfilledValues(outcomes, n - 1)

\* batchReturn with Promise.all: the first rejection ends the batch
batchReturn_FailFast ==
    /\ rg.pc = "settling"
    /\ \/ \A k \in 1..rg.n : rg.outcomes[k] # Pending
       \/ \E k \in 1..rg.n : rg.outcomes[k].kind = "error"
    /\ rg' = [rg EXCEPT !.pc = "returned",
                        !.raised = \E k \in 1..rg.n : rg.outcomes[k].kind = "error",
                        !.results = FulfilledValues(rg.outcomes, rg.n)]
    /\ UNCHANGED <<store, last, csv, bulk, nz, reqs, form>>

\* Promise.allSettled resolved: filter fulfilled non-null results, map to values
batchReturn ==
    /\ rg.pc = "settling"
    /\ \A k \in 1..rg.n : rg.outcomes[k] # Pending
    /\ rg' = [rg EXCEPT !.pc = "returned",
                        !.results = FulfilledValues(rg.outcomes, rg.n)]
    /\ UNCHANGED <<store, last, csv, bulk, nz, reqs, form>>

\* a call the address loop issued for an item
AddressCall(item, fn) == [item |-> item, fn |-> fn]

\* the loop moves to item j: its search is issued if there is such an item
loopTo(r, j) ==
    [r EXCEPT !.i = j,
              !.phase = IF j <= r.n THEN "search" ELSE "",
              !.log = IF j <= r.n THEN Append(@, AddressCall(j, "searchByAddress")) ELSE @]

\* afterCatch of a loop whose try/catch encloses the whole for statement
afterCatch_Abort(i, n) == n + 1

\* the item the loop continues with after the catch block of item i
afterCatch(i, n) == i + 1

\* batchSearchByAddresses: for (const addr of addresses), first iteration
batchSearchByAddresses(n) ==
    /\ rg.pc \in {"idle", "returned"}
    /\ rg' = loopTo([RgIdle EXCEPT !.pc = "looping", !.op = "batchSearchByAddresses",
                                   !.n = n, !.outcomes = [k \in 1..n |-> Pending]], 1)
    /\ UNCHANGED <<store, last, csv, bulk, nz, reqs, form>>

\* await this.searchByAddress(...) of the current item settles
addrSearchSettles(outcome) ==
    /\ rg.pc = "looping"
    /\ rg.phase = "search"
    /\ rg' = CASE outcome = "found" ->
                     [rg EXCEPT !.phase = "detail",
                                !.log = Append(@, AddressCall(rg.i, "getPropertyById"))]
                [] outcome = "empty" ->
                     loopTo([rg EXCEPT !.outcomes[rg.i] = FulfilledNull], rg.i + 1)
                [] OTHER ->
                     loopTo([rg EXCEPT !.outcomes[rg.i] = Rejected(ApiError("500", "down"))],
                            afterCatch(rg.i, rg.n))
    /\ UNCHANGED <<store, last, csv, bulk, nz, reqs, form>>

\* await this.getPropertyById(searchResults[0].id) of the current item settles
addrDetailSettles(resp) ==
    LET property == getPropertyById(TRUE, resp) IN
    /\ rg.pc = "looping"
    /\ rg.phase = "detail"
    /\ rg' = loopTo([rg EXCEPT !.outcomes[rg.i] = property,
                               !.results = IF property.kind = "parcel"
                                           THEN Append(@, property.value) ELSE @],
                    IF property.kind = "error" THEN afterCatch(rg.i, rg.n) ELSE rg.i + 1)
    /\ UNCHANGED <<store, last, csv, bulk, nz, reqs, form>>

\* return results
addrReturn ==
    /\ rg.pc = "looping"
    /\ rg.i > rg.n
    /\ rg' = [rg EXCEPT !.pc = "returned"]
    /\ UNCHANGED <<store, last, csv, bulk, nz, reqs, form>>

----------------------------------------------------------------------------
(* RegridService.normalizeProperty on whole raw records *)

\* a bag of raw leaf fields; UNDEF marks a key the bag does not have
Bag(parcelnumb, apn, owner, yearbuilt, year_built, building_sqft, lat, fips) ==
    [parcelnumb |-> parcelnumb, apn |-> apn, owner |-> owner, yearbuilt |-> yearbuilt,
     year_built |-> year_built, building_sqft |-> building_sqft, lat |-> lat,
     fips |-> fips]

EmptyBag == Bag(UNDEF, UNDEF, UNDEF, UNDEF, UNDEF, UNDEF, UNDEF, UNDEF)

\* a container of a raw record: missing, null, or an object with a bag
Absent == [kind |-> "absent", bag |-> EmptyBag]
Null == [kind |-> "null", bag |-> EmptyBag]
Object(bag) == [kind |-> "object", bag |-> bag]

\* rawProperty: its own leaf fields, properties (with properties.fields),
\* fields, geometry and id
RawProperty(top, properties, propertiesFields, fields, geometry, id) ==
    [top |-> top, properties |-> properties, propertiesFields |-> propertiesFields,
     fields |-> fields, geometry |-> geometry, id |-> id]

\* a || b on containers: an object is truthy, null and undefined are not
OrObject(a, b) == IF a.kind = "object" THEN a ELSE b

\* rawProperty.properties?.fields
propertiesFields(rawProperty) ==
    IF rawProperty.properties.kind = "object" THEN rawProperty.propertiesFields ELSE Absent

\* const fields = rawProperty.properties?.fields || rawProperty.fields ||
\*                rawProperty.properties || rawProperty
fields(rawProperty) ==
    OrObject(propertiesFields(rawProperty),
             OrObject(rawProperty.fields,
                      OrObject(rawProperty.properties, Object(rawProperty.top))))

\* fields.key: reading a property of null or undefined raises a TypeError
Get(container, key) ==
    IF container.kind = "object" THEN container.bag[key] ELSE "TypeError"

\* the raw keys normalizeProperty reads
ReadKeys == {"parcelnumb", "apn", "owner", "yearbuilt", "building_sqft", "lat"}

NoRecord ==
    [raised |-> FALSE, apn |-> UNDEF, geometry |-> UNDEF, lat |-> UNDEF,
     properties |-> EmptyBag]

\* RegridService.normalizeProperty: apn, geometry, centroid.lat and the
\* properties bag { owner, building_sqft, year_built, ...fields }
normalizePropertyFull(rawProperty) ==
    LET f == fields(rawProperty) IN
    IF \E key \in ReadKeys : Get(f, key) = "TypeError"
    THEN [NoRecord EXCEPT !.raised = TRUE]
    ELSE [raised |-> FALSE,
          apn |-> Or(Get(f, "parcelnumb"), Or(Get(f, "apn"), "")),
          geometry |-> Or(rawProperty.geometry, EMPTY_POLYGON),
          lat |-> Or(parseFloat(Get(f, "lat")), "0"),
          properties |->
              [f.bag EXCEPT
                  !.owner = Spread(Or(Get(f, "owner"), ""), f.bag.owner),
                  !.building_sqft =
                      Spread(Or(parseInt(Get(f, "building_sqft")), UNDEF),
                             f.bag.building_sqft),
                  !.year_built =
                      Spread(Or(parseInt(Get(f, "yearbuilt")), UNDEF), f.bag.year_built)]]

NzIdle ==
    [pc |-> "idle",
     raw |-> RawProperty(EmptyBag, Absent, Absent, Absent, UNDEF, UNDEF),
     out |-> NoRecord]

\* normalizeProperty applied to the raw record at hand
normalize ==
    /\ nz.pc = "input"
    /\ nz' = [nz EXCEPT !.pc = "done", !.out = normalizePropertyFull(nz.raw)]
    /\ UNCHANGED <<store, last, csv, bulk, rg, reqs, form>>

----------------------------------------------------------------------------
(* Input sets *)

\* all sequences over S of length at most n
RECURSIVE SeqsUpTo(_, _)
SeqsUpTo(S, n) ==
    IF n = 0 THEN {<< >>}
    ELSE LET shorter == SeqsUpTo(S, n - 1) IN
         shorter \cup {Append(q, x) : q \in shorter, x \in S}

\* provider answers that carry nothing but (possibly) a parcel number
ThinProv ==
    {ProvError, ProvNone} \cup
    {ProvParcel(RawFeature(pn, UNDEF, UNDEF, UNDEF, UNDEF)) : pn \in {A1}}

\* what the provider answers to the requests a create of inp can issue: the
\* parcel answer, and for an input without parcel number the search answer
ProviderWorlds(inp, provs) ==
    IF inp.apn # NoApn
    THEN {[search |-> "found", prov |-> p] : p \in provs}
    ELSE {[search |-> "found", prov |-> p] : p \in provs}
         \cup {[search |-> q, prov |-> ProvNone] : q \in SearchOutcomes \ {"found"}}

CoreInputs ==
    {Input(apn, "1 Main St", FALSE) : apn \in {A_1, a_1}}
    \cup {[Input(NoApn, "A1 Elm St", FALSE) EXCEPT !.zip_code = "92"], Input(A_1, "", FALSE)}

\* parcel numbers asked of the duplicate check route
CheckApns == {NoApn, A_1, a_1, A1, <<"A">>, <<"9", "2">>}

Full1 == RawFeature(A_1, "Alice", "1998", "34", "G1")
Full2 == RawFeature(A_1, "Bob", "2005", "34.5", "G2")

\* provider features: complete ones, and ones with a field missing or null
MergeFeatures ==
    {Full1, Full2, NoRaw,
     [Full2 EXCEPT !.parcelnumb = NoApn],
     [Full2 EXCEPT !.owner = UNDEF],
     [Full2 EXCEPT !.owner = NULL],
     [Full2 EXCEPT !.yearbuilt = UNDEF],
     [Full2 EXCEPT !.yearbuilt = "abc"],
     [Full2 EXCEPT !.lat = UNDEF],
     [Full2 EXCEPT !.geometry = UNDEF]}

MergeProv == {ProvError, ProvNone} \cup {ProvParcel(f) : f \in MergeFeatures}

MergeInputs == {Input(A_1, "1 Main St", TRUE)}

\* create inputs: address only, every optional field given, and a resolved
\* external id next to a parcel number
Bare == Input(A_1, "1 Main St", FALSE)
Located ==
    [Input(NoApn, "1 Main St", TRUE)
        EXCEPT !.city = "Reno", !.state = "NV", !.zip_code = "89501"]
Resolved == [Located EXCEPT !.apn = A_1, !.regrid_id = "r7", !.user_notes = ""]

CreateInputs == {Bare, Located, Resolved}

\* provider features: complete, without locality, and empty
FullAddress ==
    [Full2 EXCEPT !.parcelnumb = A1, !.address = "9 Oak Ave", !.scity = "Sparks",
                  !.state2 = "CA", !.szip5 = "94000"]
StreetOnly == [FullAddress EXCEPT !.scity = UNDEF, !.state2 = "", !.szip5 = NULL]

CreateProv == {ProvError, ProvNone} \cup {ProvParcel(f) : f \in {FullAddress, StreetOnly, NoRaw}}

\* provider answers to a by-parcel-number request
Responses ==
    {Response(TRUE, "200", "", TRUE, f) : f \in {<< >>, <<Full1>>, <<Full2, Full1>>}}
    \cup {Response(TRUE, "200", "", FALSE, << >>)}
    \cup {Response(FALSE, st, body, FALSE, << >>) :
             st \in {"401", "404", "500"}, body \in {"", "Unauthorized"}}

\* features of a cached test-data file: unreadable or empty, or one parcel
CachedFiles == {<< >>, <<Full2>>}

\* limits a caller of searchByAddress passes: none, NaN and integers around
\* the provider's maximum
Limits == {NoLimit, NaN} \cup {Num(n) : n \in {0, 1, 24, 25, 26, MaxLimit}}

\* limit query parameters of the search route: absent, empty, numbers, text
LimitParams == {NULL, "", "5", "30", "30.9", "abc"}

\* the cached test-data file of a test parcel
CachedTestData == <<Full2>>

\* provider answers to a search request
SearchResponses ==
    {Response(TRUE, "200", "", TRUE, h) :
        h \in {<< >>, <<SearchHit("r7", TRUE, "A1")>>,
               <<SearchHit("r7", FALSE, UNDEF), SearchHit("r8", TRUE, UNDEF)>>}}
    \cup {Response(TRUE, "200", "", FALSE, << >>), Response(FALSE, "500", "down", FALSE, << >>)}

\* provider answers inside a batch: no parcel, a parcel, a server error
BatchResponses ==
    {Response(TRUE, "200", "", TRUE, << >>), Response(TRUE, "200", "", TRUE, <<Full1>>),
     Response(FALSE, "500", "down", FALSE, << >>)}

Fill(k) == [j \in 1..k |-> B2]

\* parsed CSV files: every short file over two parcel numbers, and files long
\* enough to need more than one chunk
CsvFiles ==
    SeqsUpTo({A1, B2}, MaxShortRows) \cup {<<A1>> \o Fill(k) : k \in batchSize..MaxFill}

BatchProv == {ProvError, ProvNone}

\* how one row of an upload fares: its duplicate check, its provider lookup,
\* its persistence create
RowPlan(fetchFails, prov, pers) == [fetchFails |-> fetchFails, prov |-> prov, pers |-> pers]

RowPlans ==
    {RowPlan(FALSE, ProvNone, "ok"), RowPlan(FALSE, ProvError, "throw"),
     RowPlan(TRUE, ProvError, "null")}

ChunkFiles == SeqsUpTo({A1, B2}, MaxChunkRows)

ChunkSeeds == {Input(A1, "1 Main St", FALSE)}

\* bodies of racing creates: two parcel numbers, an address only, no address
RaceInputs ==
    {Input(A_1, "1 Main St", FALSE), Input(B2, "9 Oak Ave", FALSE),
     Input(NoApn, "1 Main St", FALSE), Input(A_1, "", FALSE)}

RaceProv == {ProvError, ProvNone}

\* values typed into the parcel-number field: empty, too short to check, and
\* two parcel numbers
FormApns == {NoApn, A1, A_1, B_2}

\* creates of one parcel number, written with separators
RefreshedInputs == {Input(A_1, "1 Main St", FALSE), Input(A_1, "9 Oak Ave", TRUE)}

\* provider answers to a refresh: failure, nothing, the parcel with its number
\* written with or without separators, or without a number
RefreshedProv ==
    {ProvError, ProvNone}
    \cup {ProvParcel(RawFeature(pn, "Bob", "2005", "34", "G1")) : pn \in {A_1, A1, NoApn}}

\* single creates issued before an upload: a parcel, and a body without address
SeedInputs == {Input(A1, "1 Main St", FALSE), Input(A1, "", FALSE)}

ApiInputs == {Input(A1, "1 Main St", FALSE), Input(B2, "1 Main St", FALSE), Input(B2, "", FALSE)}

ApiBodies == SeqsUpTo(ApiInputs, MaxApiProps) \ {<< >>}

----------------------------------------------------------------------------
(* Specifications *)

Init ==
    /\ store = << >>
    /\ last = Last("none", "", NoApn, 0, "", ProvNone, FALSE)
    /\ csv = CsvIdle
    /\ bulk = BulkIdle
    /\ rg = RgIdle
    /\ nz = NzIdle
    /\ reqs = [c \in 1..MaxCalls |-> CallIdle]
    /\ form = FormMounted

\* single create and duplicate check by one user, refresh by that user and by
\* another one
Next ==
    \/ \E inp \in CoreInputs, pers \in PersistOutcomes(MaxCoreRecords) :
          \E w \in ProviderWorlds(inp, ThinProv) :
              handleSingleCreate("u1", inp, w.search, w.prov, pers)
    \/ \E u \in Users, id \in 1..(MaxCoreRecords + 1), prov \in ThinProv :
          refresh(id, u, prov)
    \/ \E apn \in CheckApns : checkApn("u1", apn)

Spec == Init /\ [][Next]_vars

\* create and refresh of one user's record against a provider whose answers
\* vary field by field
NextMerge ==
    \/ \E inp \in MergeInputs, prov \in MergeProv,
          pers \in PersistOutcomes(MaxMergeRecords) \ {"null"} :
          handleSingleCreate("u1", inp, "found", prov, pers)
    \/ \E id \in 1..MaxMergeRecords, prov \in MergeProv :
          refresh(id, "u1", prov)

SpecMerge == Init /\ [][NextMerge]_vars

\* single creates of inputs with and without optional fields against a
\* provider that answers fully, partly or not at all
NextCreate ==
    \E inp \in CreateInputs, pers \in PersistOutcomes(MaxCreateRecords) :
        \E w \in ProviderWorlds(inp, CreateProv) :
            handleSingleCreate("u1", inp, w.search, w.prov, pers)

SpecCreate == Init /\ [][NextCreate]_vars

\* CSV upload and direct bulk create after some single creates
NextBatch ==
    \/ \E inp \in SeedInputs, prov \in BatchProv, pers \in PersistOutcomes(MaxSeed) :
          /\ csv.pc = "idle"
          /\ handleSingleCreate("u1", inp, "found", prov, pers)
    \/ \E apns \in CsvFiles : bulk.pc = "idle" /\ csvStart("u1", apns)
    \/ \E k \in csv.pending, fetchFails \in BOOLEAN : csvCheck(k, fetchFails)
    \/ csvPartition
    \/ \E requestFails \in BOOLEAN : csvChunkRequest(requestFails)
    \/ \E prov \in BatchProv,
          pers \in PersistOutcomes(IF bulk.caller = "api" THEN MaxSeed + MaxApiProps
                                   ELSE MaxRecords) :
          bulkItem("found", prov, pers)
    \/ csvChunkResponse
    \/ csvFinish
    \/ \E props \in ApiBodies : csv.pc = "idle" /\ apiBulkCreate("u1", props)
    \/ apiBulkRespond

SpecBatch == Init /\ [][NextBatch]_vars

\* two users working on the same parcel number: single create, bulk create,
\* refresh and duplicate check
NextOwners ==
    \/ \E u \in Users, prov \in ThinProv, pers \in PersistOutcomes(MaxOwnerRecords) :
          handleSingleCreate(u, Bare, "found", prov, pers)
    \/ \E u \in Users, id \in 1..MaxOwnerRecords, prov \in ThinProv : refresh(id, u, prov)
    \/ \E u \in Users, apn \in {A_1, A1} : checkApn(u, apn)
    \/ \E u \in Users : apiBulkCreate(u, <<Bare>>)
    \/ \E prov \in BatchProv, pers \in PersistOutcomes(MaxOwnerRecords) :
          bulkItem("found", prov, pers)
    \/ apiBulkRespond

SpecOwners == Init /\ [][NextOwners]_vars

\* CSV uploads with a tuned chunk size whose rows have planned outcomes, into
\* an empty portfolio or one with a record; the duplicate checks, which touch
\* one row each, settle in row order
NextChunks ==
    \/ \E inp \in ChunkSeeds :
          /\ csv.pc = "idle"
          /\ store = << >>
          /\ handleSingleCreate("u1", inp, "found", ProvNone, "ok")
    \/ /\ csv.pc = "idle"
       /\ \E apns \in ChunkFiles, b \in 1..MaxChunk :
             \E plan \in [1..Len(apns) -> RowPlans] : csvStartTuned("u1", apns, b, plan)
    \/ \E k \in csv.pending :
          /\ \A j \in csv.pending : k <= j
          /\ csvCheck(k, csv.plan[k].fetchFails)
    \/ csvPartition
    \/ \E requestFails \in BOOLEAN : csvChunkRequest(requestFails)
    \/ /\ bulk.pc = "running"
       /\ bulkIndex <= Len(bulk.properties)
       /\ bulkItem("found", csv.plan[bulk.rows[bulkIndex]].prov,
                   csv.plan[bulk.rows[bulkIndex]].pers)
    \/ csvChunkResponse
    \/ csvFinish

SpecChunks == Init /\ [][NextChunks]_vars

\* single creates of two users that suspend at the provider call, at the
\* duplicate check and at the create
NextRace ==
    \/ \E c \in 1..MaxCalls, u \in Users, inp \in RaceInputs : createArrives(c, u, inp)
    \/ \E c \in 1..MaxCalls, search \in SearchOutcomes, prov \in RaceProv :
          createLookedUp(c, search, prov)
    \/ \E c \in 1..MaxCalls : createChecked(c)
    \/ \E c \in 1..MaxCalls, pers \in PersistOutcomes(MaxRaceRecords) :
          createPersisted(c, pers)
    \/ \E c \in 1..MaxCalls : createResponded(c)

SpecRace == Init /\ [][NextRace]_vars

\* the parcel-number form of a user whose portfolio is empty or has a record
NextForm ==
    \/ /\ store = << >>
       /\ form = FormMounted
       /\ handleSingleCreate("u1", Input(A_1, "1 Main St", FALSE), "found", ProvNone, "ok")
    \/ \E v \in FormApns : formChange(v)
    \/ formTimeout
    \/ \E k \in 1..MaxInFlight, fetchFails \in BOOLEAN : formCheckSettles(k, fetchFails)
    \/ handleSearch
    \/ \E found \in BOOLEAN : searchSettles(found)

SpecForm == Init /\ [][NextForm]_vars

\* creates answered without provider data, refreshes and duplicate checks of
\* one user
NextRefreshed ==
    \/ \E inp \in RefreshedInputs, pers \in PersistOutcomes(MaxCoreRecords) :
          handleSingleCreate("u1", inp, "found", ProvNone, pers)
    \/ \E id \in 1..MaxCoreRecords, prov \in RefreshedProv : refresh(id, "u1", prov)
    \/ \E inp \in RefreshedInputs : checkApn("u1", inp.apn)

SpecRefreshed == Init /\ [][NextRefreshed]_vars

\* the lookup client on its own: single and batch lookups
NextLookup ==
    \/ \E useCache, configured \in BOOLEAN, cached \in CachedFiles, resp \in Responses :
          lookupByAPN(useCache, cached, configured, resp)
    \/ \E limit \in Limits, configured \in BOOLEAN, resp \in SearchResponses :
          lookupByAddress(limit, configured, resp)
    \/ \E configured \in BOOLEAN, resp \in Responses : lookupById(configured, resp)
    \/ \E apn, address, configured \in BOOLEAN, limitParam \in LimitParams :
          \E resp \in (IF apn THEN BatchResponses ELSE SearchResponses) :
              searchRoute(apn, address, limitParam, apn, CachedTestData, configured, resp)
    \/ \E n \in 0..MaxBatch : batchSearchByAPNs(n)
    \/ \E k \in 1..MaxBatch, resp \in BatchResponses : batchSettle(k, resp)
    \/ batchReturn
    \/ \E n \in 0..MaxBatch : batchSearchByAddresses(n)
    \/ \E outcome \in SearchOutcomes : addrSearchSettles(outcome)
    \/ \E resp \in BatchResponses : addrDetailSettles(resp)
    \/ addrReturn

SpecLookup == Init /\ [][NextLookup]_vars

\* bags of a candidate location: empty, complete with values of its own,
\* partly filled, with unparsable and null values, with keys named like
\* canonical ones
BagsAt(who, pn) ==
    {EmptyBag,
     Bag(pn, UNDEF, who, "1998", UNDEF, "34", "34.5", "06"),
     Bag(UNDEF, UNDEF, who, UNDEF, UNDEF, UNDEF, UNDEF, "06"),
     Bag(UNDEF, "X9", NULL, "abc", UNDEF, "abc", "Infinity", UNDEF),
     Bag(pn, UNDEF, "", "1998", "2005", NULL, NULL, UNDEF)}

Containers(who, pn) == {Absent, Null} \cup {Object(b) : b \in BagsAt(who, pn)}

\* raw records with every combination of missing, null and present containers
RawProperties ==
    {RawProperty(top, properties,
                 IF properties.kind = "object" THEN pf ELSE Absent,
                 fs, geometry, "r7") :
        top \in BagsAt("Dave", "P4"),
        properties \in Containers("Carol", "P3"),
        pf \in Containers("Alice", "P1"),
        fs \in Containers("Bob", "P2"),
        geometry \in {UNDEF, NULL, "G1"}}

InitNormalize ==
    /\ store = << >>
    /\ last = Last("none", "", NoApn, 0, "", ProvNone, FALSE)
    /\ csv = CsvIdle
    /\ bulk = BulkIdle
    /\ rg = RgIdle
    /\ reqs = [c \in 1..MaxCalls |-> CallIdle]
    /\ form = FormMounted
    /\ nz \in {[NzIdle EXCEPT !.pc = "input", !.raw = r] : r \in RawProperties}

NextNormalize == normalize

SpecNormalize == InitNormalize /\ [][NextNormalize]_vars

----------------------------------------------------------------------------
(* Properties *)

\* the record with identifier id in a store
RecordOf(st, id) == CHOOSE r \in {st[i] : i \in 1..Len(st)} : r.id = id

HasRecord(st, id) == \E i \in 1..Len(st) : st[i].id = id

\* the provider answer held in l left the raw value v out (missing or null)
Omitted(v) == v \in {UNDEF, NULL}

\* C1: when a single create of parcel number P by user U has just succeeded,
\* an immediately following single create of P by U (well-formed, provider
\* answering) fails with the duplicate error and persists nothing.
C1_SecondCreateRejected ==
    [][(/\ last.op = "create" /\ last.status = "created" /\ last.apn # NoApn
        /\ last'.op = "create" /\ last'.user = last.user /\ last'.apn = last.apn
        /\ last'.status \notin {"validation_error", "provider_error"})
       => (last'.status = "duplicate" /\ store' = store)]_vars

\* C2: no two persisted records of one user have parcel numbers that are
\* equal ignoring case.
C2_UniquePerUser ==
    \A i, j \in 1..Len(store) :
        (i < j /\ store[i].user_id = store[j].user_id /\ store[i].apn # NoApn)
        => toLowerCase(store[i].apn) # toLowerCase(store[j].apn)

\* C3: a refresh of a record whose stored owner is "Alice" leaves the owner
\* "Alice" when the provider returns no owner and sets it to "Bob" when the
\* provider returns "Bob"; user_notes is the same before and after.
C3_RefreshOwnerMerge ==
    [][(/\ last'.op = "refresh" /\ HasRecord(store, last'.id)
        /\ RecordOf(store, last'.id).user_id = last'.user
        /\ RecordOf(store, last'.id).owner = "Alice")
       => LET before == RecordOf(store, last'.id)
              after == RecordOf(store', last'.id)
              raw == last'.prov.raw
          IN /\ (last'.prov.kind # "parcel" \/ Omitted(raw.owner) \/ raw.owner = "")
                    => after.owner = "Alice"
             /\ (last'.status = "refreshed" /\ raw.owner = "Bob") => after.owner = "Bob"
             /\ after.user_notes = before.user_notes]_vars

\* C3 witness: a refresh whose provider answer carried a null owner was
\* applied to a record that still has owner "Alice" and the user's note.
C3_Witness ==
    /\ last.op = "refresh" /\ last.status = "refreshed"
    /\ last.prov.raw.owner = NULL
    /\ RecordOf(store, last.id).owner = "Alice"
    /\ RecordOf(store, last.id).user_notes = "note"
    /\ RecordOf(store, last.id).year_built = "2005"

\* C4: every refresh call, whatever its outcome and whatever the provider
\* returned, leaves user_notes, tags, insurance_provider and
\* maintenance_history of every record as they were.
C4_RefreshKeepsUserFields ==
    [][last'.op = "refresh"
       => /\ Len(store') = Len(store)
          /\ \A i \in 1..Len(store) :
                /\ store'[i].id = store[i].id
                /\ store'[i].user_notes = store[i].user_notes
                /\ store'[i].tags = store[i].tags
                /\ store'[i].insurance_provider = store[i].insurance_provider
                /\ store'[i].maintenance_history = store[i].maintenance_history]_vars

\* C4 witness: a successful refresh replaced the owner of a record that
\* carries user-authored values.
C4_Witness ==
    /\ last.op = "refresh" /\ last.status = "refreshed"
    /\ last.prov.raw.owner = "Bob"
    /\ RecordOf(store, last.id).owner = "Bob"
    /\ RecordOf(store, last.id).tags = "tag"
    /\ RecordOf(store, last.id).maintenance_history = "roof"

\* C5: after a successful refresh, every provider-derived field that the
\* provider's raw response omitted or gave as null has its stored value from
\* before the refresh.
C5_RefreshNeverErases ==
    [][(last'.op = "refresh" /\ last'.status = "refreshed")
       => LET before == RecordOf(store, last'.id)
              after == RecordOf(store', last'.id)
              raw == last'.prov.raw
          IN /\ raw.parcelnumb = NoApn => after.apn = before.apn
             /\ Omitted(raw.geometry) => after.geometry = before.geometry
             /\ Omitted(raw.lat) => after.lat = before.lat
             /\ Omitted(raw.owner) => after.owner = before.owner
             /\ Omitted(raw.yearbuilt) => after.year_built = before.year_built]_vars

\* C6: a refresh of an id the caller does not own ends not-found, of a record
\* without parcel number ends ineligible, with a failing provider lookup ends
\* provider-unavailable; in these cases no update is issued and the store is
\* the same before and after.
C6_RefreshErrorsLeaveStore ==
    [][last'.op = "refresh"
       => LET own == getProperty(last'.id, last'.user) IN
          /\ own = {} => last'.status = "not_found"
          /\ (own # {} /\ \A r \in own : r.apn = NoApn) => last'.status = "no_apn"
          /\ (own # {} /\ (\A r \in own : r.apn # NoApn) /\ last'.prov.kind = "error")
                => last'.status = "provider_error"
          /\ last'.status \in {"not_found", "no_apn", "provider_error"}
                => (store' = store /\ ~last'.wrote)]_vars

\* C6 witness: a refresh of an existing record with a parcel number ended in
\* the provider-unavailable error.
C6_Witness ==
    /\ last.op = "refresh" /\ last.status = "provider_error"
    /\ HasRecord(store, last.id)
    /\ RecordOf(store, last.id).apn # NoApn

\* C6 further cases reached: another user's id, and a record without parcel number
C6_WitnessNotFound ==
    /\ last.op = "refresh" /\ last.status = "not_found" /\ HasRecord(store, last.id)

C6_WitnessNoApn ==
    /\ last.op = "refresh" /\ last.status = "no_apn" /\ HasRecord(store, last.id)

\* number of entries of a result or error list that belong to a row
Entries(list, row) == Cardinality({k \in 1..Len(list) : list[k].row = row})

\* C7: when a CSV run finishes, successful + failed = total, total is the
\* number of inputs and every input is in exactly one of created and errors.
C7_BatchPartition ==
    csv.pc = "done"
    => /\ csv.uploadResults.successful + csv.uploadResults.failed = csv.uploadResults.total
       /\ csv.uploadResults.total = Len(csv.properties)
       /\ \A row \in 1..Len(csv.properties) :
             Entries(csv.results, row) + Entries(csv.errors, row) = 1

\* C7 witness: a finished run of more than one chunk with a duplicate, a
\* failed chunk request, a persistence failure and a created record.
C7_Witness ==
    /\ csv.pc = "done"
    /\ Len(csv.uniqueProperties) > batchSize
    /\ \E k \in 1..Len(csv.errors) : csv.errors[k].type = "duplicate"
    /\ \E k \in 1..Len(csv.errors) : csv.errors[k].type = "upload_error"
    /\ \E k \in 1..Len(csv.errors) : csv.errors[k].type = UNDEF
    /\ \E k \in 1..Len(csv.results) : csv.results[k].property # 0

C10_DuplicateGate ==
    /\ (csv.pc \in {"chunks", "waiting", "done"} \/ (bulk.pc = "running" /\ bulk.caller = "csv"))
       => csv.pending = {}
    /\ csv.pc \in {"chunks", "waiting", "done"}
       => \A row \in csv.isDuplicate :
             /\ Cardinality({k \in 1..Len(csv.errors) :
                    csv.errors[k] = [row |-> row, type |-> "duplicate"]}) = 1
             /\ Entries(csv.errors, row) = 1
             /\ Entries(csv.results, row) = 0
             /\ \A k \in 1..Len(csv.uniqueProperties) : csv.uniqueProperties[k] # row
             /\ bulk.caller = "csv" => \A k \in 1..Len(bulk.rows) : bulk.rows[k] # row

\* C10 witness: a chunk is being created while one input of the run was
\* found to be a duplicate.
C10_Witness ==
    /\ csv.pc = "waiting"
    /\ csv.isDuplicate # {}
    /\ bulk.pc = "running"
    /\ Len(bulk.results) > 0

\* v is a value (not missing, not null, not empty)
Given(v) == v \notin {UNDEF, NULL, ""}

\* the value a persisted field takes from the provider value p if that is
\* non-empty, else from the caller value c, else null
Preferred(hasParcel, p, c) ==
    IF hasParcel /\ Given(p) THEN p ELSE IF Given(c) THEN c ELSE NULL

\* the calls of a request that went to function fn
CallsTo(calls, fn) == Cardinality({k \in 1..Len(calls) : calls[k].fn = fn})

\* C11: in the record persisted by single create, parcel number, address,
\* city, state and postal code are the provider's value when the provider
\* returned a non-empty one and the caller's otherwise; user_notes, tags,
\* insurance_provider and maintenance_history are the caller's input, null
\* when the caller gave none.
C11_CreateMergePrecedence ==
    [][(last'.op = "create" /\ last'.status = "created")
       => LET rec == RecordOf(store', last'.id)
              inp == last'.inp
              raw == last'.prov.raw
              hasParcel == last'.prov.kind = "parcel"
          IN /\ rec.apn = IF hasParcel /\ raw.parcelnumb # NoApn
                          THEN raw.parcelnumb ELSE inp.apn
             /\ rec.address = Preferred(hasParcel, raw.address, inp.address)
             /\ rec.city = Preferred(hasParcel, raw.scity, inp.city)
             /\ rec.state = Preferred(hasParcel, raw.state2, inp.state)
             /\ rec.zip_code = Preferred(hasParcel, raw.szip5, inp.zip_code)
             /\ rec.user_notes = Preferred(FALSE, NULL, inp.user_notes)
             /\ rec.tags = Preferred(FALSE, NULL, inp.tags)
             /\ rec.insurance_provider = Preferred(FALSE, NULL, inp.insurance_provider)
             /\ rec.maintenance_history = Preferred(FALSE, NULL, inp.maintenance_history)]_vars

\* C11 witness: a created record took the street from the provider, the city
\* and postal code from the caller, and the tags from the caller.
C11_Witness ==
    /\ last.op = "create" /\ last.status = "created"
    /\ last.prov.kind = "parcel"
    /\ last.prov.raw.address = "9 Oak Ave" /\ last.prov.raw.scity = UNDEF
    /\ last.inp.city = "Reno"
    /\ RecordOf(store, last.id).address = "9 Oak Ave"
    /\ RecordOf(store, last.id).city = "Reno"
    /\ RecordOf(store, last.id).zip_code = "89501"
    /\ RecordOf(store, last.id).apn = A1
    /\ RecordOf(store, last.id).tags = "tag"

C12_WitnessAddress ==
    /\ last.op = "create" /\ last.status = "created"
    /\ last.inp.apn = NoApn /\ last.search = "empty"
    /\ last.calls = <<ProviderCall("searchByAddress"), PersistenceCall("createProperty", "u1")>>
    /\ RecordOf(store, last.id).city = "Reno"

\* C13: whenever the persistence create call returns null the creation is
\* reported as failed: a single create ends in an error, and a bulk create
\* puts the input in errors and does not count it as created.
C13_NullIsFailure ==
    [][last'.pers = "null"
       => /\ store' = store
          /\ last'.op = "create" => last'.status = "db_error"
          /\ last'.op = "bulk_item"
                => /\ Len(bulk'.errors) = Len(bulk.errors) + 1
                   /\ Len(bulk'.results) = Len(bulk.results)]_vars

\* C14: a provider lookup that raises during single create ends the call in
\* an error with no persistence call and an unchanged store; during bulk
\* create the item goes on to persistence with the caller's fields and the
\* batch continues.
C14_ProviderFailure ==
    [][last'.prov.kind = "error"
       => /\ last'.op = "create"
                => /\ last'.status = "provider_error"
                   /\ store' = store
                   /\ ~last'.wrote
                   /\ \A k \in 1..Len(last'.calls) : last'.calls[k].user = ""
          /\ last'.op = "bulk_item"
                => /\ CallsTo(last'.calls, "createProperty") = 1
                   /\ bulk'.pc = "running"
                   /\ Len(bulk'.results) + Len(bulk'.errors)
                         = Len(bulk.results) + Len(bulk.errors) + 1
                   /\ last'.pers = "ok"
                         => /\ last'.status = "created"
                            /\ RecordOf(store', last'.id).apn = last'.inp.apn
                            /\ Len(bulk'.results) = Len(bulk.results) + 1]_vars

\* C14 witness: a single create of a stored parcel number ended in the
\* provider error, with the record still there.
C14_Witness ==
    /\ last.op = "create" /\ last.status = "provider_error"
    /\ last.calls = <<ProviderCall("searchByAPN")>>
    /\ Len(store) = 1

\* C14 further case reached: a bulk item was created although its lookup failed
C14_WitnessBulk ==
    /\ last.op = "bulk_item" /\ last.prov.kind = "error" /\ last.status = "created"
    /\ bulk.pc = "running"

\* C15: a single create with a malformed body and a bulk create with a
\* malformed item are rejected with no provider call, no persistence call and
\* an unchanged store; items are processed only after the whole body validated.
C15_ValidationFirst ==
    [][/\ (last'.op = "create" /\ ~createPropertySchemaOk(last'.inp))
          => /\ last'.status = "validation_error"
             /\ last'.calls = << >>
             /\ ~last'.wrote
             /\ store' = store
       /\ (last'.op = "bulk_start" /\ ~bulkCreateSchemaOk(bulk'.properties))
          => /\ last'.status = "validation_error"
             /\ last'.calls = << >>
             /\ store' = store
             /\ bulk'.pc = "responded"
             /\ bulk'.results = << >> /\ bulk'.errors = << >>
       /\ last'.op = "bulk_item" => bulkCreateSchemaOk(bulk.properties)]_vars

\* C15 witness: a single create without address was rejected while the
\* provider was failing and the portfolio held a record.
C15_Witness ==
    /\ last.op = "create" /\ last.status = "validation_error"
    /\ last.inp.address = "" /\ last.calls = << >>
    /\ Len(store) = 1

\* C15 further case reached: a bulk create with one malformed item was rejected
C15_WitnessBulk ==
    /\ last.op = "bulk_start" /\ last.status = "validation_error"
    /\ bulk.pc = "responded"
    /\ \E k \in 1..Len(bulk.properties) : createPropertySchemaOk(bulk.properties[k])

\* user u owns a record whose parcel number is apn ignoring case
OwnsApn(u, apn) ==
    \E i \in 1..Len(store) :
        /\ store[i].user_id = u
        /\ store[i].apn # NoApn
        /\ toLowerCase(store[i].apn) = toLowerCase(apn)

\* C16: the duplicate check of parcel number P for user U reports found
\* exactly when U's substring search on P returns a record whose parcel number
\* equals P ignoring case, and returns such a record; candidates that match
\* only by substring, address or postal code, and stored numbers that differ
\* from P by separators, never make it report found.  The duplicate check
\* inside single create decides the same way on the merged parcel number.
C16_ResolverExact ==
    [][/\ (last'.op = "check" /\ last'.apn # NoApn)
          => LET P == last'.apn
                 U == last'.user
                 cands == getFilteredProperties(U, P)
                 found == last'.status = "exists"
             IN /\ last'.status \in {"exists", "absent"}
                /\ found = (\E k \in 1..Len(cands) :
                               /\ cands[k].apn # NoApn
                               /\ toLowerCase(cands[k].apn) = toLowerCase(P))
                /\ found = OwnsApn(U, P)
                /\ found => /\ HasRecord(store, last'.id)
                            /\ RecordOf(store, last'.id).user_id = U
                            /\ toLowerCase(RecordOf(store, last'.id).apn) = toLowerCase(P)
                /\ store' = store
       /\ (last'.op = "create" /\ last'.status \in {"duplicate", "created", "db_error"})
          => LET merged == OrApn(RegridData(last'.prov).apn, last'.inp.apn)
             IN (last'.status = "duplicate") = (merged # NoApn /\ OwnsApn(last'.user, merged))]_vars

\* C16 witness: the check of "A1" reported not found although the user's
\* search returned a candidate (by address) and the user owns "A-1".
C16_Witness ==
    /\ last.op = "check" /\ last.status = "absent" /\ last.apn = A1
    /\ getFilteredProperties(last.user, A1) # << >>
    /\ OwnsApn(last.user, A_1)

\* C16 further cases reached: a match that differs in case, a candidate by
\* substring of the parcel number, and a candidate by postal code
C16_WitnessCase ==
    /\ last.op = "check" /\ last.status = "exists" /\ last.apn = a_1
    /\ RecordOf(store, last.id).apn = A_1

C16_WitnessSubstring ==
    /\ last.op = "check" /\ last.status = "absent" /\ last.apn = <<"A">>
    /\ \E k \in 1..Len(getFilteredProperties(last.user, <<"A">>)) :
          getFilteredProperties(last.user, <<"A">>)[k].apn = A_1

C16_WitnessPostal ==
    /\ last.op = "check" /\ last.status = "absent" /\ last.apn = <<"9", "2">>
    /\ getFilteredProperties(last.user, <<"9", "2">>) # << >>

\* the DatabaseService functions
PersistenceFns ==
    {"getProperty", "getFilteredProperties", "createProperty", "updateProperty"}

C18_NotFoundVersusFailure ==
    (rg.op = "searchByAPN" /\ rg.configured /\ rg.fetches = 1)
    => /\ (rg.resp.ok /\ Features(rg.resp) = << >>)
             => (rg.result.kind = "none" /\ rg.result.error = NoError)
       /\ ~rg.resp.ok
             => /\ rg.result.kind = "error"
                /\ rg.result.error.status = rg.resp.status
                /\ rg.result.error.body = rg.resp.body
       /\ (rg.resp.ok /\ Features(rg.resp) # << >>)
             => /\ rg.result.kind = "parcel"
                /\ rg.result.value = normalizeProperty(rg.resp.features[1])

\* C18 witness: the provider answered 404 with a body and the lookup raised.
C18_Witness ==
    /\ rg.op = "searchByAPN" /\ rg.configured
    /\ rg.resp.status = "404" /\ rg.resp.body = "Unauthorized"
    /\ rg.result.kind = "error"

\* C18 further case reached: a successful answer without results gave none
C18_WitnessNone ==
    /\ rg.op = "searchByAPN" /\ rg.configured
    /\ rg.resp.ok /\ rg.resp.hasFeatures /\ rg.resp.features = << >>
    /\ rg.result = FulfilledNull

\* number of inputs of the batch whose lookup failed or found nothing
Dropped == Cardinality({k \in 1..rg.n : rg.outcomes[k].kind \in {"error", "none"}})

\* C19: the batch lookup by parcel numbers starts a lookup for every input,
\* returns only when all have settled, never raises, and returns exactly the
\* parcels of the lookups that succeeded with a parcel, in input order: n
\* inputs with k failed or not-found lookups give n - k records.
C19_SettleAll ==
    rg.op = "batchSearchByAPNs"
    => /\ Len(rg.outcomes) = rg.n
       /\ ~rg.raised
       /\ rg.pc = "returned"
             => /\ \A k \in 1..rg.n : rg.outcomes[k].kind \in {"parcel", "none", "error"}
                /\ rg.results = FulfilledValues(rg.outcomes, rg.n)
                /\ Len(rg.results) = rg.n - Dropped

\* C19 witness: a returned batch in which one lookup failed, one found
\* nothing and one succeeded.
C19_Witness ==
    /\ rg.op = "batchSearchByAPNs" /\ rg.pc = "returned"
    /\ \E k \in 1..rg.n : rg.outcomes[k].kind = "error"
    /\ \E k \in 1..rg.n : rg.outcomes[k].kind = "none"
    /\ Len(rg.results) = 1

\* positions of the log at which a call for an item was issued
CallsOf(item, fn) == {b \in 1..Len(rg.log) : rg.log[b] = AddressCall(item, fn)}

\* C20: the batch lookup by addresses issues the search of an item only after
\* every earlier item has finished, never raises, keeps the parcel of an item
\* only if its search found a candidate and its detail fetch a parcel, and has
\* searched every item when it returns.
C20_SequentialAddresses ==
    rg.op = "batchSearchByAddresses"
    => /\ ~rg.raised
       /\ \A b \in 1..Len(rg.log) :
             /\ \A k \in 1..(rg.log[b].item - 1) : rg.outcomes[k] # Pending
             /\ \A a \in 1..(b - 1) : rg.log[a].item <= rg.log[b].item
       /\ \A k \in 1..rg.n :
             /\ Cardinality(CallsOf(k, "searchByAddress")) <= 1
             /\ Cardinality(CallsOf(k, "getPropertyById")) <= 1
             /\ \A d \in CallsOf(k, "getPropertyById") :
                   \E c \in CallsOf(k, "searchByAddress") : c < d
             /\ (rg.outcomes[k] = Pending /\ CallsOf(k, "searchByAddress") # {}) => k = rg.i
       /\ rg.results = FulfilledValues(rg.outcomes, rg.n)
       /\ rg.pc = "returned"
             => \A k \in 1..rg.n :
                   /\ Cardinality(CallsOf(k, "searchByAddress")) = 1
                   /\ rg.outcomes[k] # Pending

\* C20 witness: a returned batch whose first item failed in the search, whose
\* second failed in the detail fetch and whose last item gave a parcel.
C20_Witness ==
    /\ rg.op = "batchSearchByAddresses" /\ rg.pc = "returned" /\ rg.n >= 3
    /\ rg.outcomes[1].kind = "error" /\ CallsOf(1, "getPropertyById") = {}
    /\ rg.outcomes[2].kind = "error" /\ CallsOf(2, "getPropertyById") # {}
    /\ rg.outcomes[rg.n].kind = "parcel"
    /\ Len(rg.results) >= 1

\* lookups made without a provider token
Unconfigured ==
    /\ rg.op \in {"searchByAPN", "searchByAddress", "getPropertyById"}
    /\ ~rg.configured

\* C21: when the provider token is not configured, every lookup operation (by
\* parcel number, by address, by external id) raises the configuration error
\* and no HTTP request to the provider is issued.
C21_MissingCredential ==
    Unconfigured => (rg.result = Rejected(ConfigError) /\ rg.fetches = 0)

\* C21, the part that holds: without a token no lookup issues a request, and
\* every lookup that is not answered from cached test data raises the
\* configuration error.
C21_ExceptCachedTestData ==
    Unconfigured
    => /\ rg.fetches = 0
       /\ ~cacheHit(rg.useCache, rg.cached) => rg.result = Rejected(ConfigError)

\* C21 case reached: a lookup by address without a token raised the
\* configuration error.
C21_WitnessRaised ==
    /\ rg.op = "searchByAddress" /\ ~rg.configured
    /\ rg.result = Rejected(ConfigError) /\ rg.fetches = 0

\* C22: for every caller-requested limit, the limit the address search sends
\* to the provider is at most 25.
C22_LimitCap ==
    (rg.op \in {"searchByAddress", "GET search"} /\ rg.limit # NoLimit)
    => (~rg.limit.nan /\ rg.limit.n <= REGRID_MAX_LIMIT)

\* C22, the part that holds: a limit that is a number is sent as the smaller
\* of itself and 25.
C22_NumericLimitCap ==
    (rg.op \in {"searchByAddress", "GET search"} /\ rg.limit # NoLimit /\ ~rg.limit.nan)
    => rg.limit.n <= REGRID_MAX_LIMIT

\* C22 case reached: a caller asked for more than 25 and 25 was sent.
C22_WitnessCapped ==
    /\ rg.op = "GET search" /\ rg.limit = Num(REGRID_MAX_LIMIT) /\ rg.fetches = 1

\* a finite number, as the tokens of the model write it
Finite(v) == v \in {"0", "34", "35", "34.5", "1998", "2005"}

\* C23: for every raw record shape, with any subset of fields or containers
\* (properties, properties.fields, fields, geometry) missing or null,
\* normalize returns a canonical record without raising, and every numeric
\* field of the result is a finite number or its null/default (absent for
\* attributes, 0 for lat/lng).
C23_NormalizerTotality ==
    nz.pc = "done"
    => /\ ~nz.out.raised
       /\ Finite(nz.out.lat)
       /\ Finite(nz.out.properties.building_sqft)
             \/ nz.out.properties.building_sqft \in {UNDEF, NULL}
       /\ Finite(nz.out.properties.year_built)
             \/ nz.out.properties.year_built \in {UNDEF, NULL}

\* C23, the part that holds: normalize never raises, a missing geometry
\* becomes the empty polygon, and a numeric field whose raw value is missing,
\* null or a parsable finite number is a finite number or its default.
C23_NeverRaises ==
    nz.pc = "done"
    => /\ ~nz.out.raised
       /\ nz.out.geometry # UNDEF /\ nz.out.geometry # NULL
       /\ fields(nz.raw).bag.lat # "Infinity" => Finite(nz.out.lat)
       /\ fields(nz.raw).bag.building_sqft # "abc"
             => \/ Finite(nz.out.properties.building_sqft)
                \/ nz.out.properties.building_sqft \in {UNDEF, NULL}

\* C23 case reached: every container is missing or null and a record came out
C23_WitnessBare ==
    /\ nz.pc = "done" /\ ~nz.out.raised
    /\ nz.raw.properties.kind = "null" /\ nz.raw.fields.kind = "absent"
    /\ nz.raw.geometry = NULL /\ nz.raw.top = EmptyBag
    /\ nz.out.lat = "0" /\ nz.out.geometry = EMPTY_POLYGON

\* the candidate locations of a raw record in precedence order
Locations(rawProperty) ==
    <<propertiesFields(rawProperty), rawProperty.fields, rawProperty.properties,
      Object(rawProperty.top)>>

\* the field is present at the location
PresentAt(rawProperty, l, key) ==
    /\ Locations(rawProperty)[l].kind = "object"
    /\ ~Falsy(Locations(rawProperty)[l].bag[key])

\* the value at the first location where the field is present
FirstPresent(rawProperty, key) ==
    LET l == CHOOSE l \in 1..4 :
                 /\ PresentAt(rawProperty, l, key)
                 /\ \A h \in 1..(l - 1) : ~PresentAt(rawProperty, h, key)
    IN Locations(rawProperty)[l].bag[key]

\* C24: candidate locations are probed in the order properties.fields, fields,
\* properties, top level; per field the first present value wins: on a
\* conflict the higher-precedence location's value is the result, and a field
\* present only at a lower-precedence location is still found.
C24_Precedence ==
    nz.pc = "done"
    => \A key \in {"parcelnumb", "fips"} :
          (\E l \in 1..4 : PresentAt(nz.raw, l, key))
          => (IF key = "parcelnumb" THEN nz.out.apn ELSE nz.out.properties.fips)
                = FirstPresent(nz.raw, key)

\* C24, the part that holds: the first location that is an object is the
\* only one read, so a field present there wins over every lower location.
C24_FirstObjectWins ==
    nz.pc = "done"
    => \A l \in 1..4 :
          (/\ PresentAt(nz.raw, l, "parcelnumb")
           /\ \A h \in 1..(l - 1) : Locations(nz.raw)[h].kind # "object")
          => nz.out.apn = Locations(nz.raw)[l].bag.parcelnumb

\* C24 case reached: the parcel number is at properties.fields and, with
\* another value, at fields, and the one of properties.fields came out
C24_WitnessConflict ==
    /\ nz.pc = "done"
    /\ PresentAt(nz.raw, 1, "parcelnumb") /\ PresentAt(nz.raw, 2, "parcelnumb")
    /\ nz.out.apn = "P1"

\* C25: the attribute bag holds every raw field that is not otherwise mapped,
\* and for every canonical key its value is the canonicalized one even when
\* the raw record has a field of the same key with another value.
C25_CanonicalKeysWin ==
    (nz.pc = "done" /\ ~nz.out.raised)
    => LET f == fields(nz.raw).bag IN
       /\ nz.out.properties.fips = f.fips
       /\ nz.out.properties.owner = Or(f.owner, "")
       /\ nz.out.properties.year_built = Or(parseInt(f.yearbuilt), UNDEF)
       /\ nz.out.properties.building_sqft = Or(parseInt(f.building_sqft), UNDEF)

\* C25, the part that holds: every raw field of the bag that was read is in
\* the attribute bag under its own key.
C25_Passthrough ==
    (nz.pc = "done" /\ ~nz.out.raised)
    => \A key \in {"parcelnumb", "apn", "yearbuilt", "lat", "fips"} :
          nz.out.properties[key] = fields(nz.raw).bag[key]

\* C25 case reached: the raw record has no field named like a canonical key
\* and the canonical year came out next to the raw one
C25_WitnessNoConflict ==
    /\ nz.pc = "done" /\ fields(nz.raw).bag.year_built = UNDEF
    /\ nz.out.properties.year_built = "1998" /\ nz.out.properties.yearbuilt = "1998"

\* rows the planned duplicate checks report as duplicates
PlannedDuplicates ==
    {k \in 1..Len(csv.properties) : k \in csv.preexisting /\ ~csv.plan[k].fetchFails}

\* rows the plan lets the create path finish, and rows it makes fail
PlannedCreated ==
    {k \in 1..Len(csv.properties) \ PlannedDuplicates : csv.plan[k].pers # "throw"}
PlannedFailed ==
    PlannedDuplicates \cup {k \in 1..Len(csv.properties) : csv.plan[k].pers = "throw"}

\* every chunk request of the run was answered
AllChunksAnswered == \A e \in 1..Len(csv.errors) : csv.errors[e].type # "upload_error"

\* C26: the chunk size is not a correctness parameter: for every list of
\* inputs and every chunk size >= 1, a run of the batch coordinator from a
\* given store state with given per-input duplicate-check, provider,
\* validation and persistence outcomes, all of whose chunk requests are
\* answered, creates the same set of inputs, fails the same set of inputs and
\* reports the same summary counts, namely those the outcomes alone determine.
C26_ChunkSizeIrrelevant ==
    (csv.pc = "done" /\ csv.plan # << >> /\ AllChunksAnswered)
    => /\ {csv.results[r].row : r \in 1..Len(csv.results)} = PlannedCreated
       /\ {csv.errors[e].row : e \in 1..Len(csv.errors)} = PlannedFailed
       /\ csv.uploadResults =
             [total |-> Len(csv.properties),
              successful |-> Cardinality(PlannedCreated),
              failed |-> Cardinality(PlannedFailed)]

\* C26 witness: a finished run of three rows in chunks of two, with a
\* duplicate, a created and a failed row.
C26_Witness ==
    /\ csv.pc = "done" /\ csv.plan # << >> /\ AllChunksAnswered
    /\ csv.batchSize = 2 /\ Len(csv.properties) = 3
    /\ PlannedDuplicates # {} /\ PlannedCreated # {}
    /\ \E k \in PlannedFailed \ PlannedDuplicates : TRUE

\* C26 further case reached: the same file and plan in one chunk per row
C26_WitnessSingles ==
    /\ csv.pc = "done" /\ csv.plan # << >> /\ AllChunksAnswered
    /\ csv.batchSize = 1 /\ Len(csv.properties) = 3
    /\ PlannedDuplicates # {} /\ PlannedCreated # {}

\* records of user u whose parcel number equals apn ignoring case
RecordsWith(u, apn) ==
    {k \in 1..Len(store) :
        store[k].user_id = u /\ toLowerCase(store[k].apn) = toLowerCase(apn)}

\* C27: when two single creates of one user for one parcel number run
\* interleaved, suspending at the provider call, the duplicate check and the
\* create, at most one persists a record and the other ends in a duplicate
\* error: no interleaving leaves the user with two records of that number.
C27_ConcurrentCreates ==
    \A c, d \in 1..MaxCalls :
        (/\ c # d
         /\ reqs[c].pc = "done" /\ reqs[d].pc = "done"
         /\ reqs[c].user = reqs[d].user
         /\ reqs[c].inp.apn # NoApn /\ reqs[c].inp.apn = reqs[d].inp.apn)
        => /\ ~(reqs[c].status = "created" /\ reqs[d].status = "created")
           /\ Cardinality(RecordsWith(reqs[c].user, reqs[c].inp.apn)) <= 1

\* C27, what holds: a create whose duplicate check ran after the other
\* request's record was persisted ends in a duplicate error.
C27_CheckAfterCreate ==
    [][\A c \in 1..MaxCalls :
          (/\ reqs[c].pc = "check"
           /\ RecordsWith(reqs[c].user, reqs[c].data.apn) # {}
           /\ reqs'[c].pc # "check")
          => (reqs'[c].pc = "done" /\ reqs'[c].status = "duplicate")]_vars

\* C27 case reached: one request created the record and the other, checked
\* afterwards, was rejected as a duplicate
C27_WitnessRejected ==
    \E c, d \in 1..MaxCalls :
        /\ reqs[c].pc = "done" /\ reqs[c].status = "created"
        /\ reqs[d].pc = "done" /\ reqs[d].status = "duplicate"
        /\ reqs[c].user = reqs[d].user /\ reqs[c].inp.apn = reqs[d].inp.apn

\* C28: for a record created with parcel number P, after any number of
\* successful refreshes a duplicate check with P for the same user still
\* finds the record and a single create with P is rejected as a duplicate.
\* (Every record of SpecRefreshed was created by its user with P = A-1.)
C28_CreateAfterRefresh ==
    [][(/\ Len(store) >= 1
        /\ last'.inp.apn = A_1 \/ (last'.op = "check" /\ last'.apn = A_1))
       => /\ last'.op = "create" => last'.status = "duplicate"
          /\ last'.op = "check" => last'.status = "exists"]_vars

\* C28, what holds: as long as the record was not refreshed successfully a
\* second create with P is rejected and the check finds the record.
C28_BeforeRefresh ==
    [][(/\ Len(store) >= 1
        /\ \A k \in 1..Len(store) : store[k].apn = A_1
        /\ last'.inp.apn = A_1 \/ (last'.op = "check" /\ last'.apn = A_1))
       => /\ last'.op = "create" => last'.status = "duplicate"
          /\ last'.op = "check" => last'.status = "exists"]_vars

\* C28 case reached: a create with P was rejected while the record held P
C28_WitnessRejected ==
    /\ last.op = "create" /\ last.status = "duplicate" /\ last.inp.apn = A_1
    /\ Len(store) = 1 /\ store[1].apn = A_1

\* C29: from the start of handleUpload until the upload results of the run
\* are set, isUploading stays true, so the upload action is disabled and no
\* second run can start while duplicate checks or chunk requests of the
\* first are in flight.
C29_UploadExclusive ==
    csv.pc \in {"checking", "chunks", "waiting"} => (csv.isUploading /\ uploadDisabled)

\* C29 case reached: a run with chunk requests in flight
C29_WitnessInFlight ==
    csv.pc = "waiting" /\ bulk.pc = "running" /\ Len(csv.properties) >= 2

\* C30: whenever the duplicate warning is set or the search action is not
\* blocked by isRecentlyChanged or isDuplicateChecking, the last completed
\* duplicate check was made for the parcel number now in the form: a
\* response for an earlier value never sets the warning or re-enables search.
C30_FreshDuplicateCheck ==
    (\/ form.duplicateProperty # 0
     \/ ~form.isRecentlyChanged /\ ~form.isDuplicateChecking)
    => form.lastChecked = <<form.apn>>

\* C30 case reached: the warning shows the record of the value in the form
C30_WitnessWarning ==
    /\ form.apn = A_1 /\ form.duplicateProperty # 0 /\ form.lastChecked = <<A_1>>
    /\ form.inFlight = << >>

====
